---- MODULE Spec2Model ----
(***************************************************************************)
(* fastTinker: the code execution engine of the Electron main process      *)
(* (execute-code / stop-execution, executeJavaScript, executePHP) and the   *)
(* renderer's executeCode / stopExecution that drive it, with the          *)
(* renderer's code transforms (processMagicComments, autoLogExpressions,    *)
(* autoLogExpressionsPHP), the runtime locators (findNodeExecutable,       *)
(* findPHPExecutable), and the renderer's tabs, language selector and      *)
(* auto-run timer (createNewTab, switchTab, closeTab, debounceExecute).    *)
(*                                                                          *)
(* Text is modelled as a sequence of tokens.  A token is a piece of text    *)
(* the parser cannot look inside:                                           *)
(*   "S"  the start sentinel  __FASTTINKER_<LANG>_RESULT_START__            *)
(*   "E"  the end sentinel    __FASTTINKER_<LANG>_RESULT_END__              *)
(*   "n"  a newline (white space)                                           *)
(*   "{" "}"  braces                                                        *)
(*   "o"  the members  "output":[],"error":null,"magicComments":[]          *)
(*   "v"  a JSON scalar such as 42                                          *)
(*   "x"  any other text (no brace, no newline, no sentinel)                *)
(*   "P"  the text "Parse error" (PHP's fatal-parse marker)                 *)
(*   "a" "b" "c"  the texts the user code prints, in this order              *)
(*   "A" "B" "C"  the JSON text of the output entry of type log for "a".."c" *)
(*   "T"  the JSON text of an error member whose message is "t", the         *)
(*        message the user code throws; "o" then stands for the member names *)
(*   "p1" "p2" "p3"  the JSON text of the probe entry for line 1..3          *)
(*   "e1" "e2" "e3"  the same for a probe entry that carries an error        *)
(*   "d"  the member names  "output", "error", "value"  of the degraded      *)
(*        payload, with the value "[Serialization error]"                    *)
(***************************************************************************)
EXTENDS Integers, Sequences, FiniteSets, TLC

\* ------------------------------------------------------------------ bounds
\* Number of execute-code invocations the model follows.
MaxExecs == 2
\* Data events the child delivers when a single execution is followed with a
\* stop request (CancelSpec).
MaxData == 2
\* Data events the child delivers when a single execution is followed to its
\* result (ParserSpec).
MaxChunks == 4
\* Output calls of a snippet and lines that can carry a probe annotation
\* (HarnessSpec).
MaxLogs == 2
MaxLines == 2
\* Paths in the locator's list of well-known install locations.
MaxPaths == 2
\* Lines of the code in the editor when the transforms are followed
\* (TransformSpec).
MaxCodeLines == 3
\* Calls of debounceExecute that are followed.
MaxTimers == 2
\* Tabs open at the same time, and the largest tab id that is followed.
MaxTabs == 3
MaxTabId == 3

Execs == 1..MaxExecs
Languages == {"javascript", "php"}

\* ------------------------------------------------------------- text helpers
Min(a, b) == IF a < b THEN a ELSE b
Max(a, b) == IF a > b THEN a ELSE b

\* Does `sub` occur in `s` at (1-based) position i?
OccursAt(s, sub, i) ==
  /\ i >= 1
  /\ i + Len(sub) - 1 <= Len(s)
  /\ \A k \in 1..Len(sub) : s[i + k - 1] = sub[k]

\* A lastIndexOf in the place of indexOf: the last occurrence, not the first.
IndexOfLast(s, sub, from) ==
  LET hits == {i \in Max(from, 1)..(Len(s) - Len(sub) + 1) : OccursAt(s, sub, i)}
  IN IF hits = {} THEN 0 ELSE CHOOSE i \in hits : \A j \in hits : i >= j

\* String.prototype.indexOf(sub, from), 1-based; 0 stands for JavaScript's -1.
\* `from` is the 1-based position the search starts at; a position below the
\* start is clamped to the start, as JavaScript clamps a negative fromIndex.
IndexOf(s, sub, from) ==
  LET hits == {i \in Max(from, 1)..(Len(s) - Len(sub) + 1) : OccursAt(s, sub, i)}
  IN IF hits = {} THEN 0 ELSE CHOOSE i \in hits : \A j \in hits : i <= j

\* String.prototype.includes
Includes(s, sub) == IndexOf(s, sub, 1) # 0

\* String.prototype.substring(a, b) on 0-based offsets a, b (b exclusive):
\* both are clamped to 0..length and swapped when a > b.
Substring(s, a, b) ==
  LET ca == Min(Max(a, 0), Len(s))
      cb == Min(Max(b, 0), Len(s))
      lo == Min(ca, cb)
      hi == Max(ca, cb)
  IN SubSeq(s, lo + 1, hi)

\* \s, as far as the tokens go: the newline and the space.
IsSpace(c) == c \in {"n", " "}

\* String.prototype.trim
Trim(s) ==
  LET keep == {i \in 1..Len(s) : ~IsSpace(s[i])}
  IN IF keep = {} THEN <<>>
     ELSE SubSeq(s, CHOOSE i \in keep : \A j \in keep : i <= j,
                    CHOOSE i \in keep : \A j \in keep : i >= j)

\* stdout.match(/\{[\s\S]*\}/): the greedy match runs from the first "{" to
\* the last "}" after it; <<>> stands for null (a match is never empty).
BraceMatch(s) ==
  LET opens == {i \in 1..Len(s) : s[i] = "{"}
  IN IF opens = {} THEN <<>>
     ELSE LET first == CHOOSE i \in opens : \A j \in opens : i <= j
              closes == {i \in (first + 1)..Len(s) : s[i] = "}"}
          IN IF closes = {} THEN <<>>
             ELSE SubSeq(s, first, CHOOSE i \in closes : \A j \in closes : i >= j)

\* ------------------------------------------------------------------- values
NullValue == [t |-> "null"]
\* An Error object's message.
ErrorValue(msg) == [t |-> "error", message |-> msg]
\* No value: the promise is pending.
Pending == [t |-> "pending"]
\* The object literals the handlers resolve with; `value: undefined` is an
\* absent key.
ErrorResult(msg) == [t |-> "object", output |-> <<>>, error |-> ErrorValue(msg)]
EmptyResult == [t |-> "object", output |-> <<>>, error |-> NullValue]
LogEntry(text) == [type |-> "log", args |-> text]
RawOutputResult(text) ==
  [t |-> "object", output |-> <<LogEntry(text)>>, error |-> NullValue,
   magicComments |-> <<>>]

\* The texts the user code prints and the JSON texts of their output entries
\* and of the probe entries, by position.
LogText == <<"a", "b", "c">>
EntryToken == <<"A", "B", "C">>
ProbeToken == <<"p1", "p2", "p3">>
FailedProbeToken == <<"e1", "e2", "e3">>
ThrownMessage == <<"t">>
IndexIn(table, tok) == CHOOSE i \in 1..Len(table) : table[i] = tok
Range(table) == {table[i] : i \in 1..Len(table)}

\* A probe result { line, expression, value }: its line is what is followed.
ProbeEntry(line) == [line |-> line]
\* A probe result { line, expression, value: null, error }.
FailedProbeEntry(line) == [line |-> line, value |-> NullValue, error |-> "thrown"]

\* JSON.stringify / json_encode of a result object: the member names, then
\* the output entries, the error if it is not null, and the probe entries.
Stringify(r) ==
  LET hdr == IF "magicComments" \in DOMAIN r THEN "o" ELSE "d"
      out == [i \in 1..Len(r.output) |->
                EntryToken[IndexIn(LogText, r.output[i].args[1])]]
      err == IF r.error = NullValue THEN <<>> ELSE <<"T">>
      mcs == IF "magicComments" \in DOMAIN r
             THEN [i \in 1..Len(r.magicComments) |->
                     IF "error" \in DOMAIN r.magicComments[i]
                     THEN FailedProbeToken[r.magicComments[i].line]
                     ELSE ProbeToken[r.magicComments[i].line]]
             ELSE <<>>
  IN <<"{", hdr>> \o out \o err \o mcs \o <<"}">>

\* The text of a result object, as Stringify writes it.
IsResultText(j) ==
  /\ Len(j) >= 3
  /\ j[1] = "{"
  /\ j[2] \in {"o", "d"}
  /\ j[Len(j)] = "}"
  /\ \A k \in 3..(Len(j) - 1) :
       j[k] \in Range(EntryToken) \cup {"T"} \cup Range(ProbeToken)
                \cup Range(FailedProbeToken)

\* JSON.parse of such a text.
DecodeResult(j) ==
  LET body == SubSeq(j, 3, Len(j) - 1)
      ents == SelectSeq(body, LAMBDA c : c \in Range(EntryToken))
      prbs == SelectSeq(body, LAMBDA c : c \in Range(ProbeToken)
                                          \cup Range(FailedProbeToken))
      output == [i \in 1..Len(ents) |->
                   [type |-> "log", args |-> <<LogText[IndexIn(EntryToken, ents[i])]>>]]
      error == IF \E k \in 1..Len(body) : body[k] = "T"
               THEN [t |-> "error", message |-> ThrownMessage]
               ELSE NullValue
      probes == [i \in 1..Len(prbs) |->
                   IF prbs[i] \in Range(ProbeToken)
                   THEN ProbeEntry(IndexIn(ProbeToken, prbs[i]))
                   ELSE FailedProbeEntry(IndexIn(FailedProbeToken, prbs[i]))]
  IN IF j[2] = "o"
       THEN [t |-> "object", output |-> output, error |-> error,
             magicComments |-> probes]
       ELSE [t |-> "object", output |-> output, error |-> error,
             value |-> "[Serialization error]"]

\* JSON.parse.  White space between tokens is skipped.  The texts the model
\* can tell apart: a scalar, the empty object {}, the object {o} and the
\* result objects Stringify writes.
\* Anything else is a SyntaxError, returned as [t |-> "throw"].
JsonText(s) == SelectSeq(s, LAMBDA c : ~IsSpace(c))
JsonParse(s) ==
  LET j == JsonText(s)
  IN IF j = <<"v">> THEN [t |-> "scalar"]
     ELSE IF j = <<"{", "}">> THEN [t |-> "object"]
     ELSE IF j = <<"{", "o", "}">>
       THEN [t |-> "object", output |-> <<>>, error |-> NullValue,
             magicComments |-> <<>>]
     ELSE IF IsResultText(j) THEN DecodeResult(j)
     ELSE [t |-> "throw", message |-> <<"SyntaxError">>]

START == <<"S">>
END == <<"E">>
NL == <<"n">>
ParseErrorMarker == <<"P">>

\* The body of the catch (e) block of both close handlers: e.message of a
\* SyntaxError is never empty, so the || alternative is not taken.
CatchResult(e) == ErrorResult(e.message)

\* The close handler without its stderr rung: with no delimited payload it
\* goes straight to the payload-shaped substring.
ParseJavaScriptNoStderrRung(out, err) ==
  LET resultStart == IndexOf(out, START \o NL, 1)
      resultEnd == IndexOf(out, NL \o END, resultStart)
  IN IF resultStart # 0 /\ resultEnd # 0
       THEN LET jsonStr == Substring(out, (resultStart - 1) + Len(START \o NL),
                                     resultEnd - 1)
                result == JsonParse(jsonStr)
            IN IF result.t = "throw" THEN CatchResult(result) ELSE result
     ELSE LET jsonMatch == BraceMatch(out)
          IN IF jsonMatch # <<>>
               THEN LET result == JsonParse(jsonMatch)
                    IN IF result.t = "throw" THEN CatchResult(result) ELSE result
             ELSE EmptyResult

\* executeJavaScript's close handler, the try block and its catch.
ParseJavaScript(out, err) ==
  LET resultStart == IndexOf(out, START \o NL, 1)
      resultEnd == IndexOf(out, NL \o END, resultStart)
  IN IF resultStart # 0 /\ resultEnd # 0
       THEN LET jsonStr == Substring(out, (resultStart - 1) + Len(START \o NL),
                                     resultEnd - 1)
                result == JsonParse(jsonStr)
            IN IF result.t = "throw" THEN CatchResult(result) ELSE result
     ELSE IF err # <<>> /\ ~Includes(out, START)
       THEN ErrorResult(err)
     ELSE LET jsonMatch == BraceMatch(out)
          IN IF jsonMatch # <<>>
               THEN LET result == JsonParse(jsonMatch)
                    IN IF result.t = "throw" THEN CatchResult(result) ELSE result
             ELSE EmptyResult

\* executePHP's close handler, the try block and its catch.
ParsePHP(out, err) ==
  LET resultStart1 == IndexOf(out, START \o NL, 1)
      resultStart2 == IndexOf(out, START, 1)
      resultStart == IF resultStart1 # 0 THEN resultStart1 ELSE resultStart2
      searchStart == resultStart + Len(START)
      resultEnd1 == IndexOf(out, NL \o END, searchStart)
      resultEnd2 == IndexOf(out, END, searchStart)
      resultEnd == IF resultStart = 0 THEN 0
                   ELSE IF resultEnd1 # 0 THEN resultEnd1 ELSE resultEnd2
  IN IF resultStart # 0 /\ resultEnd # 0
       THEN LET jsonStart0 == (resultStart - 1) + Len(START)
                jsonStart == IF jsonStart0 + 1 <= Len(out) /\ out[jsonStart0 + 1] = "n"
                             THEN jsonStart0 + 1 ELSE jsonStart0
                jsonStr == Trim(Substring(out, jsonStart, resultEnd - 1))
                result == JsonParse(jsonStr)
            IN IF result.t = "throw" THEN CatchResult(result) ELSE result
     ELSE IF err # <<>> /\ ~Includes(out, START)
       THEN ErrorResult(err)
     ELSE LET jsonMatch == BraceMatch(out)
          IN IF jsonMatch # <<>>
               THEN LET result == JsonParse(jsonMatch)
                    IN IF result.t = "throw"
                         THEN ErrorResult(<<"Failed to parse execution result. Output: ">>
                                          \o Substring(out, 0, 200))
                         ELSE result
             ELSE IF Trim(out) # <<>>
               THEN RawOutputResult(Trim(out))
             ELSE IF Trim(err) # <<>>
               THEN ErrorResult(Trim(err))
             ELSE ErrorResult(<<"Execution returned no output.">>)

ParseResult(lang, out, err) ==
  IF lang = "javascript" THEN ParseJavaScript(out, err) ELSE ParsePHP(out, err)

\* --------------------------------------------------- the renderer's transforms
\* The code in the editor is a sequence of tokens too:
\*   " "  a space              "n"  a newline
\*   "x" "f" "console" "log" "if" "echo" "var_export" "print_r" "true"
\*        words (letters and underscores); adjacent words read as one word
\*   "1"  a number             "$"  a dollar sign      "q"  the literal "\n"
\*   ";" "=" "+" "." "," "->" "(" ")" "{" "}" ":" "?"  punctuation
\*   "//" "/*" "*/"  comment marks
Words ==
  {"x", "f", "console", "log", "if", "echo", "var_export", "print_r", "true"}

\* String.prototype.split('\n')
RECURSIVE Split(_)
Split(s) ==
  LET i == IndexOf(s, <<"n">>, 1)
  IN IF i = 0 THEN <<s>>
     ELSE <<SubSeq(s, 1, i - 1)>> \o Split(SubSeq(s, i + 1, Len(s)))

\* Array.prototype.join('\n')
RECURSIVE Join(_)
Join(lines) ==
  IF Len(lines) = 0 THEN <<>>
  ELSE IF Len(lines) = 1 THEN lines[1]
  ELSE lines[1] \o <<"n">> \o Join(Tail(lines))

\* The position of the first token of s at or after `from` that is not white
\* space; Len(s) + 1 when there is none.
SkipSpaces(s, from) ==
  LET stops == {k \in from..Len(s) : ~IsSpace(s[k])}
  IN IF stops = {} THEN Len(s) + 1 ELSE CHOOSE k \in stops : \A j \in stops : k <= j

\* line.match(/\/\/\s*\$\s*(.+)/): the leftmost "//" that is followed, after
\* optional white space, by a dollar sign and at least one more character;
\* group 1 is what follows the dollar sign (less leading white space unless
\* nothing else follows).  0 stands for null, otherwise the position of the
\* dollar sign is returned.
MagicMatch(line) ==
  LET hits == {i \in 1..Len(line) :
                 /\ line[i] = "//"
                 /\ LET j == SkipSpaces(line, i + 1)
                    IN j < Len(line) /\ line[j] = "$"}
  IN IF hits = {} THEN 0
     ELSE SkipSpaces(line, (CHOOSE i \in hits : \A j \in hits : i <= j) + 1)

\* A processMagicComments that numbers the lines from 0.
ProcessMagicCommentsZeroBased(text) ==
  LET lines == Split(text)
      all == [i \in 1..Len(lines) |-> [line |-> i - 1, at |-> MagicMatch(lines[i])]]
      hits == SelectSeq(all, LAMBDA m : m.at # 0)
  IN [code |-> Join(lines),
      magicComments |->
        [k \in 1..Len(hits) |->
           [line |-> hits[k].line,
            expression |-> Trim(SubSeq(lines[hits[k].line + 1], hits[k].at + 1,
                                       Len(lines[hits[k].line + 1])))]]]

\* processMagicComments: { code, magicComments } with one { line, expression }
\* per line that carries a probe annotation, in line order; every line is
\* pushed as it is and the lines are joined again.
ProcessMagicComments(text) ==
  LET lines == Split(text)
      all == [i \in 1..Len(lines) |-> [line |-> i, at |-> MagicMatch(lines[i])]]
      hits == SelectSeq(all, LAMBDA m : m.at # 0)
  IN [code |-> Join(lines),
      magicComments |->
        [k \in 1..Len(hits) |->
           [line |-> hits[k].line,
            expression |-> Trim(SubSeq(lines[hits[k].line], hits[k].at + 1,
                                       Len(lines[hits[k].line])))]]]

\* The net count of opening over closing tokens in a line.
Depth(line, open, close) ==
  Cardinality({i \in 1..Len(line) : line[i] = open})
  - Cardinality({i \in 1..Len(line) : line[i] = close})

\* trimmed.split(/\s|\(/)[0]
FirstWord(trimmed) ==
  LET stops == {k \in 1..Len(trimmed) : IsSpace(trimmed[k]) \/ trimmed[k] = "("}
  IN IF stops = {} THEN trimmed
     ELSE SubSeq(trimmed, 1, (CHOOSE k \in stops : \A j \in stops : k <= j) - 1)

\* The members of the statementKeywords sets that are words of the model.
StatementKeywords(lang) ==
  IF lang = "javascript" THEN {"if"}
  ELSE {"if", "echo", "print_r", "var_export"}

\* The test that sends a line through as a statement.
IsStatement(lang, trimmed) ==
  \/ Len(FirstWord(trimmed)) = 1 /\ FirstWord(trimmed)[1] \in StatementKeywords(lang)
  \/ trimmed[1] = "{"
  \/ trimmed[1] = "}"
  \/ trimmed[Len(trimmed)] = "{"
  \/ Includes(trimmed, <<":">>) /\ ~Includes(trimmed, <<"?">>)

\* /=\s*[^=]/.test(trimmed) and none of "==", "!=", "=>" (PHP: "<=>") in it.
\* The regular expression asks for an "=" that is followed by a character
\* other than "=" (\s* may match nothing, and white space is not "=").
HasAssignment(trimmed) ==
  /\ \E i \in 1..(Len(trimmed) - 1) : trimmed[i] = "=" /\ trimmed[i + 1] # "="
  /\ ~Includes(trimmed, <<"=", "=">>)

\* trimmed.replace(/;$/, '')
WithoutSemicolon(trimmed) ==
  IF Len(trimmed) > 0 /\ trimmed[Len(trimmed)] = ";"
  THEN SubSeq(trimmed, 1, Len(trimmed) - 1) ELSE trimmed

\* Where the identifier that starts at position i of s ends (the position
\* after its last character); 0 when no identifier starts there.  `dollar`
\* says whether "$" is an identifier character (JavaScript) or not (PHP).
IdentEnd(s, i, dollar) ==
  LET start == Words \cup (IF dollar THEN {"$"} ELSE {})
      part == start \cup {"1"}
      stops == {k \in (i + 1)..Len(s) : s[k] \notin part}
  IN IF i > Len(s) \/ s[i] \notin start THEN 0
     ELSE IF stops = {} THEN Len(s) + 1
     ELSE CHOOSE k \in stops : \A j \in stops : k <= j

\* The tail of both expression patterns, from position i to the end of s:
\* any number of member accesses (`access` identifier) and of parenthesised
\* argument lists \([^)]*\).
RECURSIVE Accesses(_, _, _, _)
Accesses(s, i, access, dollar) ==
  IF i > Len(s) THEN TRUE
  ELSE IF s[i] = access
       THEN LET j == IdentEnd(s, i + 1, dollar)
            IN j # 0 /\ Accesses(s, j, access, dollar)
  ELSE IF s[i] = "("
       THEN LET k == IndexOf(s, <<")">>, i + 1)
            IN k # 0 /\ Accesses(s, k + 1, access, dollar)
  ELSE FALSE

\* expressionPattern.test(s)
ExpressionPattern(s) ==
  LET j == IdentEnd(s, 1, TRUE) IN j # 0 /\ Accesses(s, j, ".", TRUE)

\* phpExpressionPattern.test(s)
PhpExpressionPattern(s) ==
  /\ Len(s) >= 1
  /\ s[1] = "$"
  /\ LET j == IdentEnd(s, 2, FALSE) IN j # 0 /\ Accesses(s, j, "->", FALSE)

\* /^\$[a-zA-Z_][a-zA-Z0-9_]*$/.test(s)
IsSimpleVar(s) ==
  Len(s) >= 1 /\ s[1] = "$" /\ IdentEnd(s, 2, FALSE) = Len(s) + 1

\* trimmed.match(/^(if|for|while|...|var|...)/): the words of the model that
\* start with one of the listed keywords.
StartsWithKeyword(trimmed) == trimmed[1] \in {"if", "var_export"}

\* startsWith('console.log')
IsConsoleCall(s) == OccursAt(s, <<"console", ".", "log">>, 1)

\* line.match(/^\s*/)[0]
Indent(line) == SubSeq(line, 1, SkipSpaces(line, 1) - 1)

\* The comment and depth bookkeeping both transforms share: what a line does
\* to inMultiLineComment, braceDepth and parenDepth, and whether it is
\* pushed as it is before the candidate checks are reached.
LineState(line, st) ==
  LET trimmed == Trim(line)
  IN IF trimmed = <<>> \/ trimmed[1] = "//"
     THEN [st EXCEPT !.skipped = TRUE]
     ELSE IF Includes(trimmed, <<"/*">>)
     THEN [st EXCEPT !.skipped = TRUE,
                     !.inMultiLineComment = ~Includes(trimmed, <<"*/">>)]
     ELSE IF Includes(trimmed, <<"*/">>)
     THEN [st EXCEPT !.skipped = TRUE, !.inMultiLineComment = FALSE]
     ELSE IF st.inMultiLineComment
     THEN [st EXCEPT !.skipped = TRUE]
     ELSE [skipped |-> FALSE,
           inMultiLineComment |-> FALSE,
           braceDepth |-> st.braceDepth + Depth(line, "{", "}"),
           parenDepth |-> st.parenDepth + Depth(line, "(", ")")]

\* The state before the first line.
LineState0 ==
  [skipped |-> FALSE, inMultiLineComment |-> FALSE, braceDepth |-> 0,
   parenDepth |-> 0]

\* The state after line i of `lines`.
RECURSIVE StateAfter(_, _)
StateAfter(lines, i) ==
  IF i = 0 THEN LineState0 ELSE LineState(lines[i], StateAfter(lines, i - 1))

\* A JavaScript line is wrapped: it passed every check of the loop body.
\* `st` is the state after the line's own counts were added.
IsWrappedJavaScript(line, st) ==
  LET trimmed == Trim(line)
      without == WithoutSemicolon(trimmed)
  IN /\ ~st.skipped
     /\ ~IsStatement("javascript", trimmed)
     /\ ~HasAssignment(trimmed)
     /\ st.braceDepth <= 0
     /\ st.parenDepth <= 0
     /\ ExpressionPattern(without)
     /\ Len(without) > 0
     /\ ~StartsWithKeyword(trimmed)
     /\ ~IsConsoleCall(Trim(without))

\* A PHP line is wrapped.  What passes phpExpressionPattern starts with a
\* dollar sign, so the startsWith('echo') ... tests that follow never apply.
IsWrappedPHP(line, st) ==
  LET trimmed == Trim(line)
      without == WithoutSemicolon(trimmed)
  IN /\ ~st.skipped
     /\ ~IsStatement("php", trimmed)
     /\ ~HasAssignment(trimmed)
     /\ st.braceDepth <= 0
     /\ st.parenDepth <= 0
     /\ PhpExpressionPattern(without)
     /\ Len(without) > 0

\* A wrap that loses the indentation of the line.
WrapJavaScriptNoIndent(line) ==
  <<"console", ".", "log", "(">> \o WithoutSemicolon(Trim(line)) \o <<")", ";">>

\* indent + `console.log(${withoutSemicolon});`
WrapJavaScript(line) ==
  Indent(line) \o <<"console", ".", "log", "(">>
    \o WithoutSemicolon(Trim(line)) \o <<")", ";">>

\* A wrap that uses print_r for every expression.
WrapPHPAlwaysPrintR(line) ==
  LET without == WithoutSemicolon(Trim(line))
  IN Indent(line) \o <<"echo", " ", "print_r", "(">> \o without
       \o <<",", " ", "true", ")", " ", ".", " ", "q", ";">>

\* indent + `echo var_export(${withoutSemicolon}, true) . "\n";` for a simple
\* variable, the same with print_r for every other expression.
WrapPHP(line) ==
  LET without == WithoutSemicolon(Trim(line))
      call == IF IsSimpleVar(without) THEN "var_export" ELSE "print_r"
  IN Indent(line) \o <<"echo", " ", call, "(">> \o without
       \o <<",", " ", "true", ")", " ", ".", " ", "q", ";">>

\* An autoLogExpressions that wraps console.log lines as well.
AutoLogExpressionsDoubleWrap(text) ==
  IF Trim(text) = <<>> THEN text
  ELSE LET lines == Split(text)
       IN Join([i \in 1..Len(lines) |->
                  LET st == StateAfter(lines, i)
                      trimmed == Trim(lines[i])
                      without == WithoutSemicolon(trimmed)
                  IN IF /\ ~st.skipped
                        /\ ~IsStatement("javascript", trimmed)
                        /\ ~HasAssignment(trimmed)
                        /\ st.braceDepth <= 0
                        /\ st.parenDepth <= 0
                        /\ ExpressionPattern(without)
                        /\ Len(without) > 0
                        /\ ~StartsWithKeyword(trimmed)
                     THEN WrapJavaScript(lines[i]) ELSE lines[i]])

\* autoLogExpressions(code)
AutoLogExpressions(text) ==
  IF Trim(text) = <<>> THEN text
  ELSE LET lines == Split(text)
       IN Join([i \in 1..Len(lines) |->
                  IF IsWrappedJavaScript(lines[i], StateAfter(lines, i))
                  THEN WrapJavaScript(lines[i]) ELSE lines[i]])

\* autoLogExpressionsPHP(code)
AutoLogExpressionsPHP(text) ==
  IF Trim(text) = <<>> THEN text
  ELSE LET lines == Split(text)
       IN Join([i \in 1..Len(lines) |->
                  IF IsWrappedPHP(lines[i], StateAfter(lines, i))
                  THEN WrapPHP(lines[i]) ELSE lines[i]])

\* The transform executeCode picks for currentLanguage.
AutoLog(lang, text) ==
  IF lang = "javascript" THEN AutoLogExpressions(text)
  ELSE AutoLogExpressionsPHP(text)

\* ------------------------------------------------------------ the harness
\* The user code, as far as the harness can tell one snippet from another:
\* `logs` output calls (console.log / echo of the texts of LogText, each on
\* its own line), then how the code ends, the magicComments argument, and
\* the identifiers the code has defined when it ends.
\*   "normal"   the code runs to its end
\*   "throw"    it throws an exception with the message ThrownMessage
\*   "return"   it executes a return statement
\*   "hostile"  it ends with a value that makes the serialisation of the full
\*              result fail: in JavaScript a returned object whose second
\*              serialisation throws, in PHP output that is not valid UTF-8
Ends == {"normal", "throw", "return", "hostile"}
\* The code argument when what the child prints is chosen directly, data
\* event by data event.
Untracked ==
  [logs |-> 0, end |-> "untracked", magicComments |-> <<>>, defined |-> {}]

\* Evaluating the expression throws a ReferenceError: it names an identifier
\* the code has not defined.
Throws(script, expression) ==
  \E k \in 1..Len(expression) : expression[k] \in {"x", "f"} \ script.defined

\* /^[a-zA-Z_][a-zA-Z0-9_]*$/.test(exprForCode) && !exprForCode.startsWith('$')
IsSimpleVariable(expression) ==
  IdentEnd(expression, 1, FALSE) = Len(expression) + 1

\* What the output calls write: each text and a newline.
Printed(script) ==
  [k \in 1..(2 * script.logs) |->
     IF k % 2 = 1 THEN LogText[(k + 1) \div 2] ELSE "n"]
\* The output buffer the harness collects from them.
Collected(script) ==
  [i \in 1..script.logs |-> [type |-> "log", args |-> <<LogText[i]>>]]

FramedText(r) == START \o NL \o Stringify(r) \o NL \o END \o NL

\* stdout of the script executeJavaScript writes and runs.  console.log
\* pushes an entry to __output and prints through the original console; the
\* probe evaluations follow the user code inside the same function, so a
\* throw or a return skips them.  Each evaluation has its own try block: one
\* that throws pushes an entry with value null and the error's message.
HarnessJavaScript(script) ==
  LET mc == script.magicComments
      probes == IF script.end = "normal"
                THEN [i \in 1..Len(mc) |->
                        IF Throws(script, mc[i].expression)
                        THEN FailedProbeEntry(mc[i].line)
                        ELSE ProbeEntry(mc[i].line)]
                ELSE <<>>
      error == IF script.end = "throw"
               THEN [t |-> "error", message |-> ThrownMessage]
               ELSE NullValue
      result == [t |-> "object", output |-> Collected(script), error |-> error,
                 magicComments |-> probes]
      degraded == [t |-> "object", output |-> Collected(script), error |-> error,
                   value |-> "[Serialization error]"]
  IN Printed(script) \o
     (IF script.end = "hostile"
      THEN START \o NL \o FramedText(degraded)
      ELSE FramedText(result))

\* stdout of the script executePHP writes and runs.  Output is buffered
\* (ob_start); the footer turns the buffer into output entries.  A probe is
\* evaluated only when its expression is a simple variable name, as @$name,
\* which does not throw for a variable that is not defined.  A throw
\* goes to the catch block, which builds a result with an empty output list
\* and leaves the buffer to be flushed ahead of the payload; a return at the
\* top level of the script ends it before the footer runs.
HarnessPHP(script) ==
  LET mc == SelectSeq(script.magicComments, LAMBDA m : IsSimpleVariable(m.expression))
      probes == [i \in 1..Len(mc) |-> ProbeEntry(mc[i].line)]
      result == [t |-> "object", output |-> Collected(script), error |-> NullValue,
                 magicComments |-> probes]
      thrown == [t |-> "object", output |-> <<>>,
                 error |-> [t |-> "error", message |-> ThrownMessage],
                 magicComments |-> <<>>]
  IN IF script.end = "normal" THEN FramedText(result)
     ELSE IF script.end = "throw" THEN Printed(script) \o FramedText(thrown)
     ELSE IF script.end = "return" THEN Printed(script)
     ELSE START \o NL \o NL \o END \o NL

Harness(lang, script) ==
  IF lang = "javascript" THEN HarnessJavaScript(script) ELSE HarnessPHP(script)

\* ------------------------------------------------------ the runtime locator
\* What the locator can find on the machine:
\*   nvm     "nohome"      neither HOME nor USERPROFILE is set
\*           "absent"      ~/.nvm/versions/node does not exist
\*           "unreadable"  it exists and readdirSync throws
\*           "listed"      readdirSync returns `versions`, of which the ones
\*                         in `usable` hold a bin/node
\*   which   what `which` / `where` does: it "fails", prints an "empty" line,
\*           prints a path that is "missing", or prints a path that is "found"
\*   common  the positions in the commonPaths list of the paths that exist
\* A version directory is named by its number: 9 is v9.x, 10 is v10.x.
VersionNames == {9, 10}
Installations ==
  { inst \in [nvm : {"nohome", "absent", "unreadable", "listed"},
              versions : SUBSET VersionNames, usable : SUBSET VersionNames,
              which : {"fails", "empty", "missing", "found"},
              common : SUBSET (1..MaxPaths)] :
      /\ inst.usable \subseteq inst.versions
      /\ inst.nvm # "listed" => inst.versions = {} }
\* A machine with the interpreters on the PATH and nothing else.
OnPathOnly ==
  [nvm |-> "absent", versions |-> {}, usable |-> {}, which |-> "found",
   common |-> {}]

\* A candidate the locator resolves with: the step that produced it and, for
\* a version directory or a common path, which one.
Candidate(step, n) == [step |-> step, n |-> n]
NotLocated == Candidate("none", 0)
BareCommand == Candidate("bare", 0)

\* The decimal digits of a version number.
Digits(v) == IF v < 10 THEN <<v>> ELSE <<v \div 10, v % 10>>

\* A comparison of the names character by character: "10" sorts before "9".
LocaleCompareByCharacter(a, b) ==
  LET da == Digits(a)
      db == Digits(b)
  IN IF a = b THEN 0
     ELSE IF da[1] # db[1] THEN (IF da[1] < db[1] THEN -1 ELSE 1)
     ELSE IF Len(da) < Len(db) THEN -1 ELSE 1

\* a.localeCompare(b, undefined, { numeric: true }): digit runs compare as
\* numbers.
LocaleCompare(a, b) == IF a < b THEN -1 ELSE IF a > b THEN 1 ELSE 0

\* versions.sort((a, b) => b.localeCompare(a, undefined, { numeric: true }))
RECURSIVE SortedVersions(_)
SortedVersions(versions) ==
  IF versions = {} THEN <<>>
  ELSE LET first == CHOOSE a \in versions :
                      \A b \in versions : LocaleCompare(b, a) <= 0
       IN <<first>> \o SortedVersions(versions \ {first})

\* checkCommonPaths: the first path of the list that exists, else the bare
\* command name.
CheckCommonPaths(inst) ==
  IF inst.common = {} THEN BareCommand
  ELSE Candidate("common", CHOOSE k \in inst.common : \A j \in inst.common : k <= j)

\* The which/where step, shared by both locators, and what follows it.
WhichLookup(inst) ==
  IF inst.which = "found" THEN Candidate("which", 0) ELSE CheckCommonPaths(inst)

\* findNodeExecutable
FindNodeExecutable(inst) ==
  LET sorted == SortedVersions(inst.versions)
      hits == {i \in 1..Len(sorted) : sorted[i] \in inst.usable}
  IN IF inst.nvm = "listed" /\ hits # {}
     THEN Candidate("nvm", sorted[CHOOSE i \in hits : \A j \in hits : i <= j])
     ELSE WhichLookup(inst)

\* findPHPExecutable
FindPHPExecutable(inst) == WhichLookup(inst)

FindExecutable(lang, inst) ==
  IF lang = "javascript" THEN FindNodeExecutable(inst) ELSE FindPHPExecutable(inst)

\* ------------------------------------------------------------------- state
VARIABLES
  now,                 \* Date.now() of the main process
  pc,                  \* where each execute-code invocation stands
  language,            \* its language argument
  execId,              \* its execId (0 before the invocation starts)
  executionProcesses,  \* the registry: a Map from execId to child process
  files,               \* the temporary directory: script path -> whose script
  stdout,              \* the close handler's stdout buffer, per invocation
  stderr,              \* the close handler's stderr buffer, per invocation
  nData,               \* data events delivered, per invocation
  sig,                 \* what stop-execution's kill() did to the child
  settled,             \* the value the invocation's promise resolved with
  displayed,           \* what the renderer's executeCode showed for it
  stopState,           \* the renderer's stopExecution: idle, sent, replied
  stopReply,           \* the reply of the stop-execution handler, until read
  code,                \* the code and magicComments arguments, per invocation
  exitCode,            \* the code argument of the child's 'close' event
  executing,           \* where each call of the renderer's executeCode stands
  runBtn,              \* style.display of the run button
  executeTimeout,      \* debounceExecute's timer handle (0 before the first)
  editor,              \* currentEditor.editor.getValue(): the code in the editor
  currentLanguage,     \* the renderer's currentLanguage
  prepared,            \* executeCode's processedCode and autoLoggedCode, per call
  installed,           \* the interpreters the machine holds
  located,             \* what the locator resolved with, per invocation
  editors,             \* the renderer's editors list: id, language, text
  currentTabIndex,     \* the id of the active tab; new ids are counted from it
  outputContent,       \* what the output panel holds
  executionAbortController,  \* the controller of executeCode, and who made it
  timers               \* the timers of debounceExecute that have not fired

vars == <<now, pc, language, execId, executionProcesses, files, stdout, stderr,
          nData, sig, settled, displayed, stopState, stopReply, code, exitCode,
          executing, runBtn, executeTimeout, editor, currentLanguage, prepared,
          installed, located, editors, currentTabIndex, outputContent,
          executionAbortController, timers>>

\* executeCode's locals before processMagicComments has run.
NotPrepared ==
  [processedCode |-> [code |-> <<>>, magicComments |-> <<>>],
   autoLoggedCode |-> <<>>, language |-> "none"]

\* A child process is named by the invocation that spawned it.
EmptyMap == [k \in {} |-> 0]
\* Map.prototype.set
MapSet(m, k, v) == (k :> v) @@ m
\* A handler that leaves its registry entry in place.
MapDeleteForgotten(m, k) == m

\* Map.prototype.delete: deleting a key the map does not hold changes nothing.
MapDelete(m, k) == [j \in DOMAIN m \ {k} |-> m[j]]
MapValues(m) == {m[k] : k \in DOMAIN m}

\* path.join(os.tmpdir(), `fasttinker-js-${execId}.js`) and the PHP twin.
ScriptPath(lang, id) == <<lang, id>>

\* fs.unlink(scriptPath).catch(() => {}): a missing file is ignored.
Unlink(fs, path) == [q \in DOMAIN fs \ {path} |-> fs[q]]

\* A resolve that replaces the value of a promise that is already settled.
ResolveOverwrite(e, value) ==
  settled' = [settled EXCEPT ![e] = value]

\* resolve(value) of the promise of invocation e: only the first call settles.
Resolve(e, value) ==
  settled' = [settled EXCEPT ![e] = IF settled[e] = Pending THEN value ELSE @]

\* The close handler's temporary-file rule.
CloseUnlinks(lang, err) ==
  IF lang = "javascript" THEN TRUE ELSE ~Includes(err, ParseErrorMarker)

\* The message of the error handler for ENOENT names the executable tried.
SpawnErrorResult(lang) ==
  [t |-> "object", output |-> <<>>,
   error |-> [t |-> "error", message |-> <<"not found. Tried: ", lang>>,
              code |-> "ENOENT"]]

\* The invocation has started and its child's last event has not been handled.
InFlight(e) == pc[e] \in {"writing", "locating", "running", "spawnFailed", "errored"}
\* The invocation has a child whose 'close' event has not been handled.
Alive(e) == pc[e] \in {"running", "spawnFailed", "errored"}

\* let executionAbortController = null; a controller is named by the call of
\* executeCode that made it.
NoController == [call |-> 0, aborted |-> FALSE]
NewAbortController(e) == [call |-> e, aborted |-> FALSE]

\* getDefaultContentForLanguage: the welcome text of the language, cut down
\* to its output call.
DefaultContent(lang) ==
  IF lang = "php"
  THEN <<"echo", " ", "$", "x", ";">>
  ELSE <<"console", ".", "log", "(", "x", ")", ";">>

\* An entry of the editors list: the tab's id, its tracked language and
\* editor.getValue().
EditorEntry(id, lang, text) == [id |-> id, language |-> lang, value |-> text]

\* initializeEditor: one editor, whose id is the initial currentTabIndex, in
\* the current language.
InitTabs ==
  /\ currentTabIndex = 0
  /\ editors = <<EditorEntry(0, currentLanguage, editor)>>

\* Everything but the editor's content, the language and the machine.
InitEngine ==
  /\ now = 1
  /\ pc = [e \in Execs |-> "idle"]
  /\ language = [e \in Execs |-> "javascript"]
  /\ execId = [e \in Execs |-> 0]
  /\ executionProcesses = EmptyMap
  /\ files = EmptyMap
  /\ stdout = [e \in Execs |-> <<>>]
  /\ stderr = [e \in Execs |-> <<>>]
  /\ nData = [e \in Execs |-> 0]
  /\ sig = [e \in Execs |-> "none"]
  /\ settled = [e \in Execs |-> Pending]
  /\ displayed = [e \in Execs |-> "nothing"]
  /\ stopState = "idle"
  /\ stopReply = "none"
  /\ code = [e \in Execs |-> Untracked]
  /\ exitCode = [e \in Execs |-> "none"]
  /\ executing = [e \in Execs |-> "no"]
  /\ runBtn = "block"
  /\ executeTimeout = 0
  /\ prepared = [e \in Execs |-> NotPrepared]
  /\ located = [e \in Execs |-> NotLocated]
  /\ outputContent = <<>>
  /\ executionAbortController = NoController
  /\ timers = {}

\* An empty editor in a JavaScript tab.
Init ==
  /\ InitEngine
  /\ editor = <<>>
  /\ currentLanguage = "javascript"
  /\ InitTabs
  /\ installed = OnPathOnly

\* ----------------------------------------------------------------- actions
\* The clock of the main process reaches its next millisecond.  Only the
\* equality of two timestamps matters, so the clock is followed from one
\* timestamp that was used to the next.
Tick ==
  /\ now < MaxExecs
  /\ \E e \in Execs : execId[e] = now
  /\ now' = now + 1
  /\ UNCHANGED <<pc, language, execId, executionProcesses, files, stdout,
                 stderr, nData, sig, settled, displayed, stopState, stopReply,
                 code, exitCode, executing, runBtn, executeTimeout,
                 editor, currentLanguage, prepared, installed, located,
                 editors, currentTabIndex, outputContent,
                 executionAbortController, timers>>

\* ipcMain.handle('execute-code') calls executeJavaScript or executePHP, whose
\* promise executor takes execId from the clock and starts fs.writeFile.
\* Invocations are numbered in the order they arrive.  `script` stands for
\* the code and magicComments arguments.
ExecuteCode(e, lang, script) ==
  /\ pc[e] = "idle"
  /\ \A d \in Execs : d < e => pc[d] # "idle"
  /\ pc' = [pc EXCEPT ![e] = "writing"]
  /\ language' = [language EXCEPT ![e] = lang]
  /\ execId' = [execId EXCEPT ![e] = now]
  /\ code' = [code EXCEPT ![e] = script]
  /\ UNCHANGED <<now, executionProcesses, files, stdout, stderr, nData, sig,
                 settled, displayed, stopState, stopReply, exitCode,
                 executing, runBtn, executeTimeout,
                 editor, currentLanguage, prepared, installed, located,
                 editors, currentTabIndex, outputContent,
                 executionAbortController, timers>>

\* fs.writeFile fulfils: the script is on disk; findNodeExecutable or
\* findPHPExecutable is awaited next.
WriteFileDone(e) ==
  /\ pc[e] = "writing"
  /\ files' = MapSet(files, ScriptPath(language[e], execId[e]), e)
  /\ pc' = [pc EXCEPT ![e] = "locating"]
  /\ UNCHANGED <<now, language, execId, executionProcesses, stdout, stderr,
                 nData, sig, settled, displayed, stopState, stopReply, code,
                 exitCode, executing, runBtn, executeTimeout,
                 editor, currentLanguage, prepared, installed, located,
                 editors, currentTabIndex, outputContent,
                 executionAbortController, timers>>

\* The promise chain without its .catch handler: the rejection of fs.writeFile
\* is not handled and the promise of the invocation stays pending.
WriteFileFailedNoCatch(e) ==
  /\ pc[e] = "writing"
  /\ pc' = [pc EXCEPT ![e] = "writeFailed"]
  /\ UNCHANGED <<now, language, execId, executionProcesses, files, stdout,
                 stderr, nData, sig, settled, displayed, stopState, stopReply,
                 code, exitCode, executing, runBtn, executeTimeout,
                 editor, currentLanguage, prepared, installed, located,
                 editors, currentTabIndex, outputContent,
                 executionAbortController, timers>>

\* fs.writeFile rejects: the .catch handler resolves with the write error.
WriteFileFailed(e) ==
  /\ pc[e] = "writing"
  /\ pc' = [pc EXCEPT ![e] = "writeFailed"]
  /\ Resolve(e, ErrorResult(<<"write error">>))
  /\ UNCHANGED <<now, language, execId, executionProcesses, files, stdout,
                 stderr, nData, sig, displayed, stopState, stopReply, code,
                 exitCode, executing, runBtn, executeTimeout,
                 editor, currentLanguage, prepared, installed, located,
                 editors, currentTabIndex, outputContent,
                 executionAbortController, timers>>

\* await findNodeExecutable() / await findPHPExecutable(): every invocation
\* runs the locator, which keeps nothing from one call to the next.
LocateExecutable(e) ==
  /\ pc[e] = "locating"
  /\ located[e] = NotLocated
  /\ located' = [located EXCEPT ![e] = FindExecutable(language[e], installed)]
  /\ UNCHANGED <<now, pc, language, execId, executionProcesses, files, stdout,
                 stderr, nData, sig, settled, displayed, stopState, stopReply,
                 code, exitCode, executing, runBtn, executeTimeout, editor,
                 currentLanguage, prepared, installed,
                 editors, currentTabIndex, outputContent,
                 executionAbortController, timers>>

\* The locator resolved: spawn, then executionProcesses.set(execId, child).
\* found = FALSE is a spawn of a missing interpreter: the child emits 'error'.
Spawn(e, found) ==
  /\ pc[e] = "locating"
  /\ pc' = [pc EXCEPT ![e] = IF found THEN "running" ELSE "spawnFailed"]
  /\ executionProcesses' = MapSet(executionProcesses, execId[e], e)
  /\ UNCHANGED <<now, language, execId, files, stdout, stderr, nData, sig,
                 settled, displayed, stopState, stopReply, code, exitCode,
                 executing, runBtn, executeTimeout,
                 editor, currentLanguage, prepared, installed, located,
                 editors, currentTabIndex, outputContent,
                 executionAbortController, timers>>

\* A data handler that parses as soon as the buffer holds a sentinel pair,
\* without waiting for the 'close' event.
StdoutDataEager(e, chunk, limit) ==
  LET buffer == stdout[e] \o chunk
      resultStart == IndexOf(buffer, START \o NL, 1)
  IN /\ pc[e] = "running"
     /\ nData[e] < limit
     /\ stdout' = [stdout EXCEPT ![e] = buffer]
     /\ nData' = [nData EXCEPT ![e] = @ + 1]
     /\ IF resultStart # 0 /\ IndexOf(buffer, NL \o END, resultStart) # 0
        THEN Resolve(e, ParseResult(language[e], buffer, stderr[e]))
        ELSE UNCHANGED settled
     /\ UNCHANGED <<now, pc, language, execId, executionProcesses, files,
                    stderr, sig, displayed, stopState, stopReply, code,
                    exitCode, executing, runBtn, executeTimeout,
                    editor, currentLanguage, prepared, installed, located,
                 editors, currentTabIndex, outputContent,
                 executionAbortController, timers>>

\* child.stdout.on('data'): stdout += data.
StdoutData(e, chunk, limit) ==
  /\ pc[e] = "running"
  /\ nData[e] < limit
  /\ stdout' = [stdout EXCEPT ![e] = @ \o chunk]
  /\ nData' = [nData EXCEPT ![e] = @ + 1]
  /\ UNCHANGED <<now, pc, language, execId, executionProcesses, files, stderr,
                 sig, settled, displayed, stopState, stopReply, code,
                 exitCode, executing, runBtn, executeTimeout,
                 editor, currentLanguage, prepared, installed, located,
                 editors, currentTabIndex, outputContent,
                 executionAbortController, timers>>

\* child.stderr.on('data'): stderr += data.
StderrData(e, chunk, limit) ==
  /\ pc[e] = "running"
  /\ nData[e] < limit
  /\ stderr' = [stderr EXCEPT ![e] = @ \o chunk]
  /\ nData' = [nData EXCEPT ![e] = @ + 1]
  /\ UNCHANGED <<now, pc, language, execId, executionProcesses, files, stdout,
                 sig, settled, displayed, stopState, stopReply, code,
                 exitCode, executing, runBtn, executeTimeout,
                 editor, currentLanguage, prepared, installed, located,
                 editors, currentTabIndex, outputContent,
                 executionAbortController, timers>>

\* The values the 'close' event's code argument can take: null after a
\* signal, an error number after a failed spawn, else the child's exit status
\* ("0", or "1" for any nonzero status).
PossibleExits(e) ==
  IF pc[e] = "errored" THEN {"errno"}
  ELSE IF sig[e] = "killed" THEN {"null", "0", "1"}
  ELSE {"0", "1"}

\* A child that ends quietly: status 0 unless it was killed or never started.
QuietExit(e) ==
  IF pc[e] = "errored" THEN "errno"
  ELSE IF sig[e] = "killed" THEN "null"
  ELSE "0"

\* A close handler that treats a nonzero exit status as a failure.
CloseEventByExitCode(e, exit) ==
  /\ pc[e] \in {"running", "errored"}
  /\ exit \in PossibleExits(e)
  /\ exitCode' = [exitCode EXCEPT ![e] = exit]
  /\ pc' = [pc EXCEPT ![e] = "closed"]
  /\ executionProcesses' = MapDelete(executionProcesses, execId[e])
  /\ files' = IF CloseUnlinks(language[e], stderr[e])
              THEN Unlink(files, ScriptPath(language[e], execId[e]))
              ELSE files
  /\ Resolve(e, IF exit = "0"
                THEN ParseResult(language[e], stdout[e], stderr[e])
                ELSE ErrorResult(<<"Process exited with code ", exit>>))
  /\ UNCHANGED <<now, language, execId, stdout, stderr, nData, sig, displayed,
                 stopState, stopReply, code, executing, runBtn,
                 executeTimeout,
                 editor, currentLanguage, prepared, installed, located,
                 editors, currentTabIndex, outputContent,
                 executionAbortController, timers>>

\* child.on('close', (code) => ...): the child's streams have closed, after
\* its own exit, a kill, or a failed spawn's 'error' event.
CloseEvent(e, exit) ==
  /\ pc[e] \in {"running", "errored"}
  /\ exit \in PossibleExits(e)
  /\ exitCode' = [exitCode EXCEPT ![e] = exit]
  /\ pc' = [pc EXCEPT ![e] = "closed"]
  /\ executionProcesses' = MapDelete(executionProcesses, execId[e])
  /\ files' = IF CloseUnlinks(language[e], stderr[e])
              THEN Unlink(files, ScriptPath(language[e], execId[e]))
              ELSE files
  /\ Resolve(e, ParseResult(language[e], stdout[e], stderr[e]))
  /\ UNCHANGED <<now, language, execId, stdout, stderr, nData, sig, displayed,
                 stopState, stopReply, code, executing, runBtn,
                 executeTimeout,
                 editor, currentLanguage, prepared, installed, located,
                 editors, currentTabIndex, outputContent,
                 executionAbortController, timers>>

\* child.on('error') after a spawn that found no interpreter.
ErrorEvent(e) ==
  /\ pc[e] = "spawnFailed"
  /\ pc' = [pc EXCEPT ![e] = "errored"]
  /\ executionProcesses' = MapDelete(executionProcesses, execId[e])
  /\ files' = Unlink(files, ScriptPath(language[e], execId[e]))
  /\ Resolve(e, SpawnErrorResult(language[e]))
  /\ UNCHANGED <<now, language, execId, stdout, stderr, nData, sig, displayed,
                 stopState, stopReply, code, exitCode, executing, runBtn,
                 executeTimeout,
                 editor, currentLanguage, prepared, installed, located,
                 editors, currentTabIndex, outputContent,
                 executionAbortController, timers>>

\* The renderer's stopExecution up to its await: abort() on the controller,
\* if there is one (no listener is attached to its signal), then the
\* stop-execution request.
StopRequest ==
  /\ stopState = "idle"
  /\ stopState' = "sent"
  /\ executionAbortController' =
       IF executionAbortController # NoController
       THEN [executionAbortController EXCEPT !.aborted = TRUE]
       ELSE executionAbortController
  /\ UNCHANGED <<now, pc, language, execId, executionProcesses, files, stdout,
                 stderr, nData, sig, settled, displayed, stopReply, code,
                 exitCode, executing, runBtn, executeTimeout,
                 editor, currentLanguage, prepared, installed, located,
                 editors, currentTabIndex, outputContent, timers>>

\* The handler without its try/catch: the first kill() that throws ends the
\* loop, the registry is not cleared and the invocation is rejected.
StopHandlerNoCatch(failing) ==
  LET tracked == MapValues(executionProcesses)
      reached(e) == \A f \in failing : e <= f
  IN /\ sig' = [e \in Execs |->
                  IF e \in tracked /\ reached(e)
                  THEN (IF e \in failing THEN "killFailed" ELSE "killed")
                  ELSE sig[e]]
     /\ executionProcesses' = IF failing = {} THEN EmptyMap ELSE executionProcesses
     /\ stopReply' = IF failing = {} THEN "success" ELSE "error"

\* ipcMain.handle('stop-execution'): kill() is called on every registered
\* child inside try/catch, the registry is cleared, { success: true } is
\* returned.  `failing` are the children whose kill() throws: they get no
\* signal, and the exception is swallowed.
StopHandler(failing) ==
  /\ sig' = [e \in Execs |-> IF e \in MapValues(executionProcesses)
                             THEN (IF e \in failing THEN "killFailed" ELSE "killed")
                             ELSE sig[e]]
  /\ executionProcesses' = EmptyMap
  /\ stopReply' = "success"

StopExecution(failing) ==
  /\ stopState = "sent"
  /\ failing \subseteq MapValues(executionProcesses)
  /\ stopState' = "replied"
  /\ StopHandler(failing)
  /\ UNCHANGED <<now, pc, language, execId, files, stdout, stderr, nData,
                 settled, displayed, code, exitCode, executing, runBtn,
                 executeTimeout,
                 editor, currentLanguage, prepared, installed, located,
                 editors, currentTabIndex, outputContent,
                 executionAbortController, timers>>

\* The renderer's await of the stop-execution reply returns; the reply is
\* not looked at.
StopReturn ==
  /\ stopState = "replied"
  /\ stopState' = "idle"
  /\ stopReply' = "none"
  /\ UNCHANGED <<now, pc, language, execId, executionProcesses, files, stdout,
                 stderr, nData, sig, settled, displayed, code, exitCode,
                 executing, runBtn, executeTimeout,
                 editor, currentLanguage, prepared, installed, located,
                 editors, currentTabIndex, outputContent,
                 executionAbortController, timers>>

\* displayExecutionResults starts with result.output.forEach: a value with no
\* output list makes it throw a TypeError, which executeCode's catch displays.
HasOutputList(r) == r.t = "object" /\ "output" \in DOMAIN r

\* displayExecutionResults appends to the output panel, and clears nothing:
\* the entries of result.output, then the error, then the probes, those of
\* the result or else those taken from the code.  The divs of one part are
\* followed as one entry, which names the call of executeCode it came from.
\* A result with no output list ends in displayError with the TypeError.
Divs(e, result, magicComments) ==
  LET part(name) == <<[run |-> e, part |-> name]>>
  IN IF ~HasOutputList(result) THEN part("error")
     ELSE (IF result.output # <<>> THEN part("output") ELSE <<>>)
          \o (IF result.error # NullValue THEN part("error") ELSE <<>>)
          \o (IF "magicComments" \in DOMAIN result
                 /\ result.magicComments # <<>>
              THEN part("magicComments")
              ELSE IF magicComments # <<>> THEN part("expressions") ELSE <<>>)

\* executeCode after its await: the promise's value is displayed, whatever
\* happened to the AbortController meanwhile; the finally block shows the run
\* button again and drops the controller.
DisplayResults(e) ==
  /\ executing[e] = "awaiting"
  /\ settled[e] # Pending
  /\ displayed[e] = "nothing"
  /\ displayed' = [displayed EXCEPT ![e] =
                     IF HasOutputList(settled[e]) THEN "results" ELSE "typeError"]
  /\ executing' = [executing EXCEPT ![e] = "done"]
  /\ runBtn' = "block"
  /\ outputContent' =
       outputContent
       \o Divs(e, settled[e], prepared[e].processedCode.magicComments)
  /\ executionAbortController' = NoController
  /\ UNCHANGED <<now, pc, language, execId, executionProcesses, files, stdout,
                 stderr, nData, sig, settled, stopState, stopReply, code,
                 exitCode, executeTimeout,
                 editor, currentLanguage, prepared, installed, located,
                 editors, currentTabIndex, timers>>

\* executeCode's try block up to the call of executeInHybridEnvironment: the
\* probes are taken from the code, then the code goes through the transform
\* of the current language.  `language` keeps which transform was chosen.
PrepareCode(lang, text) ==
  LET processedCode == ProcessMagicComments(text)
  IN [processedCode |-> processedCode,
      autoLoggedCode |-> AutoLog(lang, processedCode.code),
      language |-> lang]

\* What starts executeCode: a click on the run button, Ctrl+Enter in the
\* editor, or debounceExecute's timer.
Triggers == {"click", "ctrlEnter", "timer"}

\* editors.find(e => e.id === currentTabIndex): the first entry of the list
\* with the id of the active tab, 0 when there is none.
FindEditor(list, tabId) ==
  IF \E i \in 1..Len(list) : list[i].id = tabId
  THEN CHOOSE i \in 1..Len(list) :
         /\ list[i].id = tabId
         /\ \A j \in 1..(i - 1) : list[j].id # tabId
  ELSE 0

\* The renderer's executeCode up to its first await, for an active tab that
\* has an editor: the run button is hidden and the stop button shown, the
\* output panel is cleared, a new controller is made and the code of the
\* editor is prepared.  A click needs a visible run button and the timer
\* callback a timer that has not fired; nothing else is asked.  Calls are
\* numbered in the order they start.
RunCode(e, trigger) ==
  /\ executing[e] = "no"
  /\ \A d \in Execs : d < e => executing[d] # "no"
  /\ trigger = "click" => runBtn = "block"
  /\ FindEditor(editors, currentTabIndex) # 0
  /\ IF trigger = "timer"
     THEN \E t \in timers : timers' = timers \ {t}
     ELSE timers' = timers
  /\ executing' = [executing EXCEPT ![e] = "awaiting"]
  /\ runBtn' = "none"
  /\ outputContent' = <<>>
  /\ executionAbortController' = NewAbortController(e)
  /\ prepared' = [prepared EXCEPT ![e] = PrepareCode(currentLanguage, editor)]
  /\ UNCHANGED <<now, pc, language, execId, executionProcesses, files, stdout,
                 stderr, nData, sig, settled, displayed, stopState, stopReply,
                 code, exitCode, executeTimeout, editor, currentLanguage,
                 installed, located, editors, currentTabIndex>>

\* debounceExecute without its clearTimeout: the timer set before stays.
DebounceTimersNoClear == timers \cup {executeTimeout + 1}

\* debounceExecute: clearTimeout on the handle kept from the call before, if
\* there is one (clearing a timer that has fired does nothing), then
\* setTimeout, whose handle is a number not used before.
DebounceTimers ==
  (IF executeTimeout # 0 THEN timers \ {executeTimeout} ELSE timers)
  \cup {executeTimeout + 1}

\* The editor's content changes with auto-run on: the change listener calls
\* debounceExecute, which keeps the new handle.
DebounceExecute ==
  /\ executeTimeout < MaxTimers
  /\ timers' = DebounceTimers
  /\ executeTimeout' = executeTimeout + 1
  /\ UNCHANGED <<now, pc, language, execId, executionProcesses, files, stdout,
                 stderr, nData, sig, settled, displayed, stopState, stopReply,
                 code, exitCode, executing, runBtn,
                 editor, currentLanguage, prepared, installed, located,
                 editors, currentTabIndex, outputContent,
                 executionAbortController>>

\* The text of the active tab's editor, as executeCode finds it; `text` when
\* no entry has the id.
ActiveText(list, tabId, text) ==
  IF FindEditor(list, tabId) # 0
  THEN list[FindEditor(list, tabId)].value
  ELSE text

\* switchTab(tabId) on the list `list`: currentTabIndex becomes tabId and the
\* editor with that id is the one shown.  currentLanguage is not touched.
SwitchTabTo(list, tabId) ==
  /\ currentTabIndex' = tabId
  /\ editor' = ActiveText(list, tabId, editor)

\* A click on a tab: the tab elements carry the ids of the editors.
SwitchTab(tabId) ==
  /\ \E i \in 1..Len(editors) : editors[i].id = tabId
  /\ SwitchTabTo(editors, tabId)
  /\ UNCHANGED <<now, pc, language, execId, executionProcesses, files, stdout,
                 stderr, nData, sig, settled, displayed, stopState, stopReply,
                 code, exitCode, executing, runBtn, executeTimeout,
                 currentLanguage, prepared, installed, located,
                 editors, outputContent, executionAbortController, timers>>

\* createNewTab, with Monaco loaded: the id is ++currentTabIndex, the editor
\* starts with the default content of the current language and is pushed on
\* the list, then switchTab(tabId).
CreateNewTab ==
  /\ Len(editors) < MaxTabs
  /\ currentTabIndex < MaxTabId
  /\ LET tabId == currentTabIndex + 1
         list == Append(editors,
                        EditorEntry(tabId, currentLanguage,
                                    DefaultContent(currentLanguage)))
     IN /\ editors' = list
        /\ SwitchTabTo(list, tabId)
  /\ UNCHANGED <<now, pc, language, execId, executionProcesses, files, stdout,
                 stderr, nData, sig, settled, displayed, stopState, stopReply,
                 code, exitCode, executing, runBtn, executeTimeout,
                 currentLanguage, prepared, installed, located,
                 outputContent, executionAbortController, timers>>

\* Array.prototype.splice(i, 1)
RemoveAt(list, i) == SubSeq(list, 1, i - 1) \o SubSeq(list, i + 1, Len(list))

\* closeTab without its first check: the last tab can be closed, and then no
\* editor is left to switch to.
CloseTabAlsoLast(tabId) ==
  /\ IF FindEditor(editors, tabId) = 0
     THEN UNCHANGED <<editors, currentTabIndex, editor>>
     ELSE LET list == RemoveAt(editors, FindEditor(editors, tabId))
          IN /\ editors' = list
             /\ IF list # <<>>
                THEN SwitchTabTo(list, list[1].id)
                ELSE UNCHANGED <<currentTabIndex, editor>>
  /\ UNCHANGED <<now, pc, language, execId, executionProcesses, files, stdout,
                 stderr, nData, sig, settled, displayed, stopState, stopReply,
                 code, exitCode, executing, runBtn, executeTimeout,
                 currentLanguage, prepared, installed, located,
                 outputContent, executionAbortController, timers>>

\* closeTab(tabId): nothing for the last tab and for an id no editor has;
\* otherwise the first editor with the id leaves the list and
\* switchTab(editors[0].id) follows.
CloseTab(tabId) ==
  /\ IF Len(editors) <= 1 \/ FindEditor(editors, tabId) = 0
     THEN UNCHANGED <<editors, currentTabIndex, editor>>
     ELSE LET list == RemoveAt(editors, FindEditor(editors, tabId))
          IN /\ editors' = list
             /\ SwitchTabTo(list, list[1].id)
  /\ UNCHANGED <<now, pc, language, execId, executionProcesses, files, stdout,
                 stderr, nData, sig, settled, displayed, stopState, stopReply,
                 code, exitCode, executing, runBtn, executeTimeout,
                 currentLanguage, prepared, installed, located,
                 outputContent, executionAbortController, timers>>

\* The change handler of the language selector, for a language other than
\* the one selected: currentLanguage is set; the active tab's editor, if
\* there is one, gets the language and its default content.  setValue is a
\* change of the content: with auto-run on, the change listener calls
\* debounceExecute.
ChangeLanguage(lang, autoRun) ==
  /\ lang # currentLanguage
  /\ currentLanguage' = lang
  /\ LET i == FindEditor(editors, currentTabIndex)
     IN IF i # 0
        THEN /\ editors' = [editors EXCEPT
                              ![i] = EditorEntry(@.id, lang, DefaultContent(lang))]
             /\ editor' = DefaultContent(lang)
             /\ IF autoRun
                THEN /\ executeTimeout < MaxTimers
                     /\ timers' = DebounceTimers
                     /\ executeTimeout' = executeTimeout + 1
                ELSE UNCHANGED <<timers, executeTimeout>>
        ELSE UNCHANGED <<editors, editor, timers, executeTimeout>>
  /\ UNCHANGED <<now, pc, language, execId, executionProcesses, files, stdout,
                 stderr, nData, sig, settled, displayed, stopState, stopReply,
                 code, exitCode, executing, runBtn, prepared, installed,
                 located, currentTabIndex, outputContent,
                 executionAbortController>>

\* executeInHybridEnvironment: the execute-code request of call e reaches the
\* main process.
ExecuteInHybridEnvironment(e, lang, script) ==
  /\ executing[e] = "awaiting"
  /\ ExecuteCode(e, lang, script)

\* ---------------------------------------------------------- specifications
\* Spec: the main process with several invocations, whose children print
\* nothing and end quietly, and stop requests at any moment.  What the
\* renderer does is followed in the other specifications.
Next ==
  \/ Tick
  \/ \E e \in Execs, lang \in Languages : ExecuteCode(e, lang, Untracked)
  \/ \E e \in Execs : WriteFileDone(e)
  \/ \E e \in Execs : WriteFileFailed(e)
  \/ \E e \in Execs, found \in BOOLEAN : Spawn(e, found)
  \/ \E e \in Execs : CloseEvent(e, QuietExit(e))
  \/ \E e \in Execs : ErrorEvent(e)
  \/ StopRequest
  \/ \E failing \in SUBSET Execs : StopExecution(failing)
  \/ StopReturn

Spec == Init /\ [][Next]_vars

\* What a child prints, one data event at a time.
FramedPayload == START \o NL \o <<"{", "o", "}">> \o NL \o END \o NL
StdoutChunks ==
  {<<"x">>, <<"n">>, START \o NL, START, NL \o END, END, <<"{", "o", "}">>,
   <<"v">>, <<"}">>, FramedPayload}
StderrChunks == {<<"x">>, ParseErrorMarker}

\* ParserSpec: one invocation, whose child prints any text of up to
\* MaxChunks data events, followed to the displayed result.
ParserNext ==
  \/ \E trigger \in {"click", "ctrlEnter"} : RunCode(1, trigger)
  \/ \E lang \in Languages : ExecuteInHybridEnvironment(1, lang, Untracked)
  \/ WriteFileDone(1)
  \/ Spawn(1, TRUE)
  \/ \E c \in StdoutChunks : StdoutData(1, c, MaxChunks)
  \/ \E c \in StderrChunks : StderrData(1, c, MaxChunks)
  \/ \E exit \in {"0", "1"} : CloseEvent(1, exit)
  \/ DisplayResults(1)

ParserSpec == Init /\ [][ParserNext]_vars

\* CancelSpec: one invocation, whose child prints up to MaxData data events,
\* with stop requests at any moment.
CancelNext ==
  \/ \E trigger \in {"click", "ctrlEnter"} : RunCode(1, trigger)
  \/ \E lang \in Languages : ExecuteInHybridEnvironment(1, lang, Untracked)
  \/ WriteFileDone(1)
  \/ \E found \in BOOLEAN : Spawn(1, found)
  \/ \E c \in {FramedPayload, <<"x">>} : StdoutData(1, c, MaxData)
  \/ \E c \in StderrChunks : StderrData(1, c, MaxData)
  \/ CloseEvent(1, QuietExit(1))
  \/ ErrorEvent(1)
  \/ StopRequest
  \/ \E failing \in SUBSET {1} : StopExecution(failing)
  \/ StopReturn
  \/ DisplayResults(1)

CancelSpec == Init /\ [][CancelNext]_vars

\* The snippets HarnessSpec runs.
\* Their first lines: a line without a probe, and lines that carry a probe
\* for x, for x + 1, and for f, which no snippet defines.
Kinds ==
  { <<"x", " ", "=", " ", "1", ";">>,
    <<"//", " ", "$", " ", "x">>,
    <<"//", " ", "$", " ", "x", " ", "+", " ", "1">>,
    <<"//", " ", "$", " ", "f">> }
Snippets ==
  [logs : 0..MaxLogs, end : Ends, lines : [1..MaxLines -> Kinds]]

\* HarnessSpec: one run of a snippet from the renderer's executeCode to the
\* displayed result; the child prints what the harness around the snippet
\* writes, in one data event, and then ends.
HarnessNext ==
  \/ \E trigger \in {"click", "ctrlEnter"} : RunCode(1, trigger)
  \/ \E lang \in Languages, snippet \in Snippets :
       ExecuteInHybridEnvironment(1, lang,
         [logs |-> snippet.logs, end |-> snippet.end,
          magicComments |-> ProcessMagicComments(Join(snippet.lines)).magicComments,
          defined |-> {"x"}])
  \/ WriteFileDone(1)
  \/ Spawn(1, TRUE)
  \/ StdoutData(1, Harness(language[1], code[1]), 1)
  \/ \E exit \in {"0", "1"} : nData[1] = 1 /\ CloseEvent(1, exit)
  \/ DisplayResults(1)

HarnessSpec == Init /\ [][HarnessNext]_vars

\* The lines the code in the editor is made of when the transforms are
\* followed:
\*   x                 a bare expression
\*     x;              the same, indented and terminated
\*   console.log(x);   a JavaScript output call
\*   x = 1; // $ x     an assignment, with a probe for x
\*   if (x) {          the start of a block
\*   }                 the end of a block
\*   x = 1 // }        an assignment followed by a comment that holds a brace
\*   // {              a comment line that holds a brace
\*   f(                a call that is not closed on its line
\*   $x                a PHP variable
\*   $x->f();          a PHP method call
\*   echo $x;          a PHP output call
CodeLines ==
  { <<"x">>,
    <<" ", " ", "x", ";">>,
    <<"console", ".", "log", "(", "x", ")", ";">>,
    <<"x", " ", "=", " ", "1", ";", " ", "//", " ", "$", " ", "x">>,
    <<"if", " ", "(", "x", ")", " ", "{">>,
    <<"}">>,
    <<"x", " ", "=", " ", "1", " ", "//", " ", "}">>,
    <<"//", " ", "{">>,
    <<"f", "(">>,
    <<"$", "x">>,
    <<"$", "x", "->", "f", "(", ")", ";">>,
    <<"echo", " ", "$", "x", ";">> }
Texts ==
  {Join(lines) : lines \in UNION {[1..k -> CodeLines] : k \in 1..MaxCodeLines}}

\* TransformSpec: the renderer's executeCode is started once, on any code of
\* Texts in the editor, in either language.
TransformInit ==
  /\ InitEngine
  /\ editor \in Texts
  /\ currentLanguage \in Languages
  /\ InitTabs
  /\ installed = OnPathOnly

TransformNext ==
  \E trigger \in {"click", "ctrlEnter"} : RunCode(1, trigger)

TransformSpec == TransformInit /\ [][TransformNext]_vars

\* What a line of JavaScript user code does when it runs, given what the
\* lines before it did: an assignment to x defines x; a console.log call is
\* one more output call; a line that evaluates an identifier that is not
\* defined throws a ReferenceError, and nothing after it runs.
RunLine(line, st) ==
  LET trimmed == Trim(line)
      comment == IndexOf(trimmed, <<"//">>, 1)
      stmt == IF comment = 0 THEN trimmed ELSE SubSeq(trimmed, 1, comment - 1)
      assigns == OccursAt(stmt, <<"x", " ", "=">>, 1)
      reads == IF assigns THEN SubSeq(stmt, 2, Len(stmt)) ELSE stmt
  IN IF st.end = "throw" \/ stmt = <<>> THEN st
     ELSE IF \E k \in 1..Len(reads) : reads[k] \in {"x", "f"} \ st.defined
     THEN [st EXCEPT !.end = "throw"]
     ELSE IF assigns THEN [st EXCEPT !.defined = @ \cup {"x"}]
     ELSE IF IsConsoleCall(stmt) THEN [st EXCEPT !.logs = @ + 1]
     ELSE st

\* The code argument of execute-code for a call of executeCode: what the
\* auto-logged code does when it runs, line after line, and the probes.
RECURSIVE RunLines(_, _, _)
RunLines(lines, i, magicComments) ==
  IF i = 0
  THEN [logs |-> 0, end |-> "normal", magicComments |-> magicComments,
        defined |-> {}]
  ELSE RunLine(lines[i], RunLines(lines, i - 1, magicComments))

UserCode(p) ==
  LET lines == Split(p.autoLoggedCode)
  IN RunLines(lines, Len(lines), p.processedCode.magicComments)

\* The JavaScript snippets RoundTripSpec runs: `x = 1; // $ x` on the first
\* line, then up to MaxCodeLines - 1 lines that read x or f.
FirstLine == <<"x", " ", "=", " ", "1", ";", " ", "//", " ", "$", " ", "x">>
LaterLines ==
  { <<"x">>,
    <<" ", " ", "x", ";">>,
    <<"console", ".", "log", "(", "x", ")", ";">>,
    <<"x", " ", "+", " ", "1">>,
    <<"f">> }
RoundTripTexts ==
  {Join(<<FirstLine>> \o lines) :
     lines \in UNION {[1..k -> LaterLines] : k \in 0..(MaxCodeLines - 1)}}

\* RoundTripSpec: one run of a JavaScript snippet from the code in the editor
\* to the displayed result.
RoundTripInit ==
  /\ InitEngine
  /\ editor \in RoundTripTexts
  /\ currentLanguage = "javascript"
  /\ InitTabs
  /\ installed = OnPathOnly

RoundTripNext ==
  \/ \E trigger \in {"click", "ctrlEnter"} : RunCode(1, trigger)
  \/ ExecuteInHybridEnvironment(1, currentLanguage, UserCode(prepared[1]))
  \/ WriteFileDone(1)
  \/ Spawn(1, TRUE)
  \/ StdoutData(1, Harness(language[1], code[1]), 1)
  \/ \E exit \in {"0", "1"} : nData[1] = 1 /\ CloseEvent(1, exit)
  \/ DisplayResults(1)

RoundTripSpec == RoundTripInit /\ [][RoundTripNext]_vars

\* LocatorSpec: invocations on any machine of Installations, each followed
\* from the request through its locator call to the end of its child.
LocatorInit ==
  /\ InitEngine
  /\ editor = <<>>
  /\ currentLanguage = "javascript"
  /\ InitTabs
  /\ installed \in Installations

LocatorNext ==
  \/ \E e \in Execs, lang \in Languages : ExecuteCode(e, lang, Untracked)
  \/ \E e \in Execs : WriteFileDone(e)
  \/ \E e \in Execs : LocateExecutable(e)
  \/ \E e \in Execs :
       located[e] # NotLocated /\ Spawn(e, located[e] # BareCommand)
  \/ \E e \in Execs : ErrorEvent(e)
  \/ \E e \in Execs : CloseEvent(e, QuietExit(e))

LocatorSpec == LocatorInit /\ [][LocatorNext]_vars

\* RendererSpec: the renderer's executeCode started by the run button,
\* Ctrl+Enter and the auto-run timer, each call followed through the main
\* process to its finally block; the children print nothing.
RendererNext ==
  \/ \E e \in Execs, trigger \in Triggers : RunCode(e, trigger)
  \/ DebounceExecute
  \/ Tick
  \/ \E e \in Execs, lang \in Languages :
       ExecuteInHybridEnvironment(e, lang, Untracked)
  \/ \E e \in Execs : WriteFileDone(e)
  \/ \E e \in Execs : Spawn(e, TRUE)
  \/ \E e \in Execs : CloseEvent(e, QuietExit(e))
  \/ \E e \in Execs : DisplayResults(e)

RendererSpec == Init /\ [][RendererNext]_vars

\* TabSpec: the tab bar and the language selector: tabs are created, clicked
\* and closed, and the language is changed, in any order.
TabNext ==
  \/ CreateNewTab
  \/ \E tabId \in 0..MaxTabId : SwitchTab(tabId)
  \/ \E tabId \in 0..MaxTabId : CloseTab(tabId)
  \/ \E lang \in Languages : ChangeLanguage(lang, FALSE)

TabSpec == Init /\ [][TabNext]_vars

\* SessionSpec: a session at the renderer: runs started by the run button,
\* Ctrl+Enter and the auto-run timer, edits and changes of the language at
\* any moment.  executeInHybridEnvironment reads currentLanguage when the
\* user-data path has arrived.  The script of a run is written or the write
\* fails; the children print nothing.
SessionNext ==
  \/ \E e \in Execs, trigger \in Triggers : RunCode(e, trigger)
  \/ DebounceExecute
  \/ \E lang \in Languages, autoRun \in BOOLEAN : ChangeLanguage(lang, autoRun)
  \/ Tick
  \/ \E e \in Execs : ExecuteInHybridEnvironment(e, currentLanguage, Untracked)
  \/ \E e \in Execs : WriteFileDone(e)
  \/ \E e \in Execs : WriteFileFailed(e)
  \/ \E e \in Execs : Spawn(e, TRUE)
  \/ \E e \in Execs : CloseEvent(e, QuietExit(e))
  \/ \E e \in Execs : DisplayResults(e)

SessionSpec == Init /\ [][SessionNext]_vars

\* ------------------------------------------------------------------- claims
\* The registry holds the handle of invocation e: its execId maps to its child.
EntryOf(e) ==
  execId[e] \in DOMAIN executionProcesses /\ executionProcesses[execId[e]] = e

\* C1: every execution yields exactly one outcome; in particular an execution
\* never ends up both cancelled (its child signalled by stop-execution) and
\* delivering a result (its promise resolved with a value).
C1_NeverCancelledAndDelivered ==
  \A e \in Execs : ~(sig[e] = "killed" /\ settled[e] # Pending)

\* C2: once stop-execution has signalled a tracked child, the renderer's
\* executeCode displays nothing for that run.
C2_SignalledRunDisplaysNothing ==
  \A e \in Execs : sig[e] = "killed" => displayed[e] = "nothing"

\* C3: a run of the stop-execution handler calls kill() on every child that is
\* in the registry, whether or not an earlier kill() threw, leaves the
\* registry empty and replies success; with an empty registry it changes
\* nothing else.
C3_StopSignalsEveryHandle ==
  [][(stopState = "sent" /\ stopState' = "replied") =>
       /\ \A p \in MapValues(executionProcesses) :
            sig[p] = "none" /\ sig'[p] \in {"killed", "killFailed"}
       /\ \A e \in Execs \ MapValues(executionProcesses) : sig'[e] = sig[e]
       /\ executionProcesses' = EmptyMap
       /\ stopReply' = "success"
       /\ UNCHANGED <<now, pc, language, execId, files, stdout, stderr, nData,
                      settled, displayed, code, exitCode, executing, runBtn,
                      executeTimeout,
                      editor, currentLanguage, prepared, installed, located,
                 editors, currentTabIndex, outputContent,
                 executionAbortController, timers>>]_vars

\* C3's case: a stop that found two children, one of whose kill() threw.
C3_Witness ==
  /\ stopState = "replied"
  /\ stopReply = "success"
  /\ executionProcesses = EmptyMap
  /\ \E a, b \in Execs :
       /\ pc[a] = "running" /\ sig[a] = "killFailed"
       /\ pc[b] = "running" /\ sig[b] = "killed"

\* C4: two executions in flight at the same time have distinct execution
\* identifiers (and so distinct registry keys and script paths).
C4_DistinctIdsInFlight ==
  \A a, b \in Execs :
    (a # b /\ InFlight(a) /\ InFlight(b)) => execId[a] # execId[b]

\* C5: after an execution's 'close' or 'error' event, and after a
\* stop-execution that found it, the registry does not hold that execution's
\* handle; and whenever no child awaits its 'close' event the registry is empty.
C5_RegistryCleanup ==
  /\ \A e \in Execs : pc[e] \in {"errored", "closed"} => ~EntryOf(e)
  /\ \A e \in Execs : sig[e] # "none" => ~EntryOf(e)
  /\ (\A e \in Execs : ~Alive(e)) => executionProcesses = EmptyMap

\* C5's case: every invocation is over, one after a stop killed its child and
\* one after a failed spawn.
C5_Witness ==
  /\ executionProcesses = EmptyMap
  /\ \A e \in Execs : pc[e] \in {"closed", "writeFailed"}
  /\ \E a, b \in Execs :
       /\ pc[a] = "closed" /\ sig[a] = "killed"
       /\ pc[b] = "closed" /\ settled[b] = SpawnErrorResult(language[b])

\* C6: the close handler's removal of an entry that the error handler or
\* stop-execution has already removed is a no-op: it leaves the registry as
\* it is.
C6_RepeatedRemovalIsNoOp ==
  [][\A e \in Execs :
       (/\ pc[e] \in {"running", "errored"}
        /\ pc'[e] = "closed"
        /\ (pc[e] = "errored" \/ sig[e] # "none"))
       => executionProcesses' = executionProcesses]_vars

\* An ExecutionResult: an object with an output list and an error that is
\* null or carries a message.
WellFormed(r) ==
  /\ r.t = "object"
  /\ "output" \in DOMAIN r
  /\ "error" \in DOMAIN r
  /\ (r.error = NullValue \/ (r.error.t = "error" /\ "message" \in DOMAIN r.error))

\* C7: whatever stdout and stderr hold, the close handler resolves with a
\* well-formed ExecutionResult.
C7_ParserTotal ==
  \A e \in Execs : pc[e] = "closed" => WellFormed(settled[e])

\* stdout holds, from position i, the start sentinel, a newline, a valid JSON
\* payload, and from position j a newline and the end sentinel.
Framed(out, i, j) ==
  /\ OccursAt(out, START \o NL, i)
  /\ j >= i + 3
  /\ OccursAt(out, NL \o END, j)
  /\ JsonParse(SubSeq(out, i + 2, j - 1)).t # "throw"
Payload(out, i, j) == SubSeq(out, i + 2, j - 1)

PlainText(out) ==
  /\ ~Includes(out, START)
  /\ ~Includes(out, END)
  /\ BraceMatch(out) = <<>>

\* C9: when stdout is non-empty plain text and stderr is empty, the result has
\* exactly one output entry, whose text is the raw stdout text, and no error.
C9_RawStdoutBecomesOutput ==
  \A e \in Execs :
    (pc[e] = "closed" /\ stdout[e] # <<>> /\ PlainText(stdout[e]) /\ stderr[e] = <<>>)
    => /\ Len(settled[e].output) = 1
       /\ settled[e].output[1].args = stdout[e]
       /\ settled[e].error = NullValue

\* C10: when the child closes with empty stdout and empty stderr, the result
\* carries an error and an empty output list.
C10_NoOutputIsAnError ==
  \A e \in Execs :
    (pc[e] = "closed" /\ stdout[e] = <<>> /\ stderr[e] = <<>>)
    => /\ settled[e].error # NullValue
       /\ settled[e].output = <<>>

\* stdout holds a complete sentinel pair: the start sentinel and a newline,
\* and after them a newline and the end sentinel.
HasSentinelPair(out) ==
  \E i \in 1..Len(out) :
    /\ OccursAt(out, START \o NL, i)
    /\ \E j \in (i + 1)..Len(out) : OccursAt(out, NL \o END, j)

\* C11: when stdout holds no start sentinel and stderr is not empty, the
\* result is an empty output list and an error whose message is the stderr
\* text, whatever else stdout holds; and when a complete sentinel pair was
\* found, the result is never built from stderr.
C11_StderrBecomesError ==
  \A e \in Execs :
    (pc[e] = "closed" /\ stderr[e] # <<>>) =>
      /\ ~Includes(stdout[e], START) => settled[e] = ErrorResult(stderr[e])
      /\ HasSentinelPair(stdout[e]) => settled[e] # ErrorResult(stderr[e])

\* C11's case: stdout held a payload-shaped text and no sentinel, stderr was
\* not empty, in a JavaScript run.
C11_Witness ==
  \E e \in Execs :
    /\ pc[e] = "closed"
    /\ language[e] = "javascript"
    /\ BraceMatch(stdout[e]) = <<"{", "o", "}">>
    /\ ~Includes(stdout[e], START)
    /\ stderr[e] = <<"x", "P">>
    /\ settled[e] = ErrorResult(<<"x", "P">>)

\* The first balanced top-level {...} substring of a text: from the first "{"
\* to the "}" that closes it; <<>> when there is none.
RECURSIVE ClosingBrace(_, _, _)
ClosingBrace(s, i, depth) ==
  IF i > Len(s) THEN 0
  ELSE IF s[i] = "{" THEN ClosingBrace(s, i + 1, depth + 1)
  ELSE IF s[i] = "}"
    THEN (IF depth = 1 THEN i ELSE ClosingBrace(s, i + 1, depth - 1))
  ELSE ClosingBrace(s, i + 1, depth)
FirstBalanced(s) ==
  LET opens == {i \in 1..Len(s) : s[i] = "{"}
  IN IF opens = {} THEN <<>>
     ELSE LET first == CHOOSE i \in opens : \A j \in opens : i <= j
              close == ClosingBrace(s, first + 1, 1)
          IN IF close = 0 THEN <<>> ELSE SubSeq(s, first, close)

\* C12: when stdout holds the start sentinel but no end sentinel, and a
\* balanced {...} substring that is valid JSON, the result is the decoded
\* value of the first such substring, whatever text follows it.
C12_FirstBalancedSubstringIsParsed ==
  \A e \in Execs :
    (/\ pc[e] = "closed"
     /\ Includes(stdout[e], START)
     /\ ~Includes(stdout[e], END)
     /\ FirstBalanced(stdout[e]) # <<>>
     /\ JsonParse(FirstBalanced(stdout[e])).t # "throw")
    => settled[e] = JsonParse(FirstBalanced(stdout[e]))

\* C13: when the user code throws after its output calls, the delivered result
\* holds every output entry produced before the throw, in order, and its
\* error message is the thrown message, in both languages.
C13_OutputSurvivesThrow ==
  \A e \in Execs :
    (pc[e] = "closed" /\ code[e].end = "throw") =>
      /\ settled[e].output = Collected(code[e])
      /\ settled[e].error # NullValue
      /\ settled[e].error.message = ThrownMessage

\* How many times a token occurs in a text.
Count(s, tok) == Cardinality({i \in 1..Len(s) : s[i] = tok})

\* C14: on every path of the JavaScript harness stdout receives exactly one
\* start sentinel and one end sentinel; when the serialisation of the full
\* result fails, the parser delivers the degraded payload (output and error).
C14_PayloadWrittenOnce ==
  \A e \in Execs :
    (pc[e] = "closed" /\ language[e] = "javascript") =>
      /\ Count(stdout[e], "S") = 1
      /\ Count(stdout[e], "E") = 1
      /\ code[e].end = "hostile" =>
           /\ WellFormed(settled[e])
           /\ settled[e].output = Collected(code[e])
           /\ settled[e].error = NullValue

\* The lines of a list of probe results are in non-decreasing order.
NonDecreasing(probes) ==
  \A i, j \in 1..Len(probes) : i <= j => probes[i].line <= probes[j].line

\* C15: for every probe annotation matched on a line, the delivered result's
\* probe list holds an entry with that line, and the entries are in
\* non-decreasing line order, for both languages, for simple and compound
\* expressions, and also when the user code throws or returns.
C15_EveryProbeHasAnEntry ==
  \A e \in Execs :
    (pc[e] = "closed" /\ code[e].end \in {"normal", "throw", "return"}) =>
      /\ "magicComments" \in DOMAIN settled[e]
      /\ NonDecreasing(settled[e].magicComments)
      /\ \A k \in 1..Len(code[e].magicComments) :
           \E i \in 1..Len(settled[e].magicComments) :
             settled[e].magicComments[i].line = code[e].magicComments[k].line

\* The script of invocation e is not in the temporary directory.
ScriptGone(e) ==
  LET path == ScriptPath(language[e], execId[e])
  IN path \in DOMAIN files => files[path] # e

\* The child of invocation e could not be spawned: its 'error' event has been
\* handled, and perhaps the 'close' event that follows it.
SpawnFailureHandled(e) ==
  pc[e] = "errored" \/ (pc[e] = "closed" /\ exitCode[e] = "errno")

\* C16: when the interpreter cannot be spawned, the promise is resolved with
\* an empty output list, no value and an error whose message names the
\* executable that was tried; the registry does not hold the execution's
\* handle and its script is removed.  The 'close' event after the 'error'
\* event leaves this result in place.
C16_SpawnFailureResult ==
  \A e \in Execs :
    SpawnFailureHandled(e) =>
      /\ settled[e] = SpawnErrorResult(language[e])
      /\ settled[e].output = <<>>
      /\ "value" \notin DOMAIN settled[e]
      /\ settled[e].error.message[Len(settled[e].error.message)] = language[e]
      /\ ~EntryOf(e)
      /\ ScriptGone(e)

\* C16's case: a spawn failed and both of the child's events, 'error' and
\* then 'close', have been handled.
C16_Witness ==
  \E e \in Execs :
    /\ pc[e] = "closed"
    /\ exitCode[e] = "errno"
    /\ settled[e] = SpawnErrorResult(language[e])
    /\ settled[e] # ParseResult(language[e], stdout[e], stderr[e])
    /\ ScriptPath(language[e], execId[e]) \notin DOMAIN files

\* C17: after the child's 'close' event the temporary script is still on disk
\* if and only if stderr holds the fatal-parse marker, in each language.
C17_ScriptKeptIffParseError ==
  \A e \in Execs :
    pc[e] = "closed" =>
      (ScriptPath(language[e], execId[e]) \in DOMAIN files
         <=> Includes(stderr[e], ParseErrorMarker))

IsPrefix(a, b) == Len(a) <= Len(b) /\ SubSeq(b, 1, Len(a)) = a

\* C18: a 'data' event only appends to its buffer and settles nothing; the
\* promise is settled with a parsed result only by the 'close' handler, from
\* the complete stdout and stderr, which do not change afterwards.
C18_ResultOnlyAtClose ==
  [][\A e \in Execs :
       /\ (stdout'[e] # stdout[e] \/ stderr'[e] # stderr[e]) =>
            /\ pc[e] = "running" /\ pc'[e] = "running"
            /\ settled[e] = Pending /\ settled'[e] = Pending
            /\ IsPrefix(stdout[e], stdout'[e])
            /\ IsPrefix(stderr[e], stderr'[e])
       /\ (settled[e] = Pending /\ settled'[e] # Pending) =>
            /\ pc[e] = "running" /\ pc'[e] = "closed"
            /\ stdout'[e] = stdout[e] /\ stderr'[e] = stderr[e]
            /\ settled'[e] = ParseResult(language[e], stdout[e], stderr[e])]_vars

\* C18's case: a delimited payload arrived in three data events and was parsed
\* at the 'close' event.
C18_Witness ==
  \E e \in Execs :
    /\ pc[e] = "closed"
    /\ nData[e] = 3
    /\ stdout[e] = START \o NL \o <<"{", "o", "}">> \o NL \o END
    /\ settled[e] = JsonParse(<<"{", "o", "}">>)

\* C19: the result delivered at the 'close' event is determined by the
\* language and the accumulated stdout and stderr alone: it is the same for
\* exit status zero and nonzero.
C19_ExitCodeIgnored ==
  \A e \in Execs :
    (pc[e] = "closed" /\ exitCode[e] \in {"0", "1"}) =>
      settled[e] = ParseResult(language[e], stdout[e], stderr[e])

\* C19's case: a child that printed its delimited payload and exited with a
\* nonzero status; the payload was delivered.
C19_Witness ==
  \E e \in Execs :
    /\ pc[e] = "closed"
    /\ exitCode[e] = "1"
    /\ stdout[e] = FramedPayload
    /\ settled[e] = JsonParse(<<"{", "o", "}">>)
    /\ displayed[e] = "results"

\* A call of the renderer's executeCode has started and has not reached the
\* end of its finally block.
Executing(e) == executing[e] = "awaiting"

\* C20: at no time are two calls of executeCode in flight, whatever started
\* them: the run button, Ctrl+Enter or the auto-run timer.
C20_OneRunAtATime ==
  \A a, b \in Execs : (Executing(a) /\ Executing(b)) => a = b

\* C21: when the run of a snippet makes no output call and ends without an
\* error (it runs to its end, or it returns), the delivered result has an
\* empty output list and a null error, in both languages.
C21_SilentRunIsEmptyResult ==
  \A e \in Execs :
    (/\ pc[e] = "closed"
     /\ code[e].logs = 0
     /\ code[e].end \in {"normal", "return"})
    => /\ settled[e].output = <<>>
       /\ settled[e].error = NullValue

\* The probe was taken from this line: the line holds a comment mark that is
\* followed by a dollar sign, and the probe's expression is the rest of the
\* line after that dollar sign, without the white space around it.
TakenFrom(probe, line) ==
  \E i, j \in 1..Len(line) :
    /\ i < j
    /\ line[i] = "//"
    /\ line[j] = "$"
    /\ \A k \in (i + 1)..(j - 1) : line[k] = " "
    /\ probe.expression # <<>>
    /\ probe.expression[1] # " "
    /\ probe.expression[Len(probe.expression)] # " "
    /\ \E a \in (j + 1)..Len(line) :
         /\ SubSeq(line, a, a + Len(probe.expression) - 1) = probe.expression
         /\ \A k \in ((j + 1)..(a - 1)) \cup ((a + Len(probe.expression))..Len(line)) :
              line[k] = " "

\* C22: processMagicComments returns the code of the editor token for token;
\* every probe it returns carries the 1-based number of a line of the code
\* and the trimmed expression of the annotation on that line, and the line
\* numbers of the probes are strictly increasing (so no line has two).
C22_ProbesExtractedCodeUnchanged ==
  \A e \in Execs :
    executing[e] # "no" =>
      LET processedCode == prepared[e].processedCode
          lines == Split(editor)
          mc == processedCode.magicComments
      IN /\ processedCode.code = editor
         /\ \A k \in 1..Len(mc) :
              /\ mc[k].line \in 1..Len(lines)
              /\ TakenFrom(mc[k], lines[mc[k].line])
         /\ \A k \in 1..(Len(mc) - 1) : mc[k].line < mc[k + 1].line

\* C22's case: a probe was taken from a line after the first one.
C22_Witness ==
  /\ executing[1] = "awaiting"
  /\ \E k \in 1..Len(prepared[1].processedCode.magicComments) :
       prepared[1].processedCode.magicComments[k].line > 1

\* The line already invokes the output call of the language.
InvokesOutputCall(lang, line) ==
  IF lang = "javascript"
  THEN OccursAt(Trim(line), <<"console", ".", "log", "(">>, 1)
  ELSE OccursAt(Trim(line), <<"echo">>, 1)

\* C23: the auto-log transform leaves every line that already invokes the
\* output call as it is, and applying it to its own output changes nothing,
\* for JavaScript and for PHP.
C23_AutoLogIdempotent ==
  \A e \in Execs :
    executing[e] # "no" =>
      LET before == Split(editor)
          after == Split(prepared[e].autoLoggedCode)
      IN /\ AutoLog(currentLanguage, prepared[e].autoLoggedCode)
              = prepared[e].autoLoggedCode
         /\ \A i \in 1..Len(before) :
              InvokesOutputCall(currentLanguage, before[i]) =>
                i <= Len(after) /\ after[i] = before[i]

\* C23's case: JavaScript code with a line that was wrapped and a line that
\* called console.log before the transform.
C23_Witness ==
  /\ executing[1] = "awaiting"
  /\ currentLanguage = "javascript"
  /\ prepared[1].autoLoggedCode # editor
  /\ \E i \in 1..Len(Split(editor)) :
       InvokesOutputCall("javascript", Split(editor)[i])

\* The snippet of the round-trip scenario: an assignment to x with a probe
\* for x on the first line, and x + 1 on the second.
Scenario == Join(<<FirstLine, <<"x", " ", "+", " ", "1">>>>)

\* C24: with that snippet in the editor, the delivered result holds one
\* output entry (for the value of x + 1) and one probe result, for x on
\* line 1, with a value and no error.
C24_RoundTrip ==
  (pc[1] = "closed" /\ editor = Scenario) =>
    /\ settled[1].error = NullValue
    /\ Len(settled[1].output) = 1
    /\ settled[1].magicComments = <<ProbeEntry(1)>>

\* The candidates of a language, and their order: the version directories
\* (JavaScript only; the higher version first), the which/where result, the
\* well-known locations in list order, the bare command name.
Candidates(lang) ==
  (IF lang = "javascript" THEN {Candidate("nvm", v) : v \in VersionNames} ELSE {})
  \cup {Candidate("which", 0), BareCommand}
  \cup {Candidate("common", k) : k \in 1..MaxPaths}
StepRank(c) ==
  IF c.step = "nvm" THEN 1 ELSE IF c.step = "which" THEN 2
  ELSE IF c.step = "common" THEN 3 ELSE 4
ComesBefore(d, c) ==
  \/ StepRank(d) < StepRank(c)
  \/ d.step = "nvm" /\ c.step = "nvm" /\ d.n > c.n
  \/ d.step = "common" /\ c.step = "common" /\ d.n < c.n
\* The candidate is there for the locator to find.
CandidateExists(c) ==
  IF c.step = "nvm" THEN installed.nvm = "listed" /\ c.n \in installed.usable
  ELSE IF c.step = "which" THEN installed.which = "found"
  ELSE IF c.step = "common" THEN c.n \in installed.common
  ELSE TRUE

\* C25: what the locator resolves with is a candidate of the language that
\* exists (the bare command name always does) such that no candidate that
\* comes before it exists; and once it has resolved, its value stays.
C25_FirstExistingCandidate ==
  /\ [](\A e \in Execs :
          located[e] # NotLocated =>
            /\ located[e] \in Candidates(language[e])
            /\ CandidateExists(located[e])
            /\ \A d \in Candidates(language[e]) :
                 ComesBefore(d, located[e]) => ~CandidateExists(d))
  /\ [][\A e \in Execs : located[e] # NotLocated => located'[e] = located[e]]_vars

\* C25's case: with v9 and v10 both usable, the locator resolved with v10.
C25_Witness ==
  /\ installed.usable = {9, 10}
  /\ \E e \in Execs : located[e] = Candidate("nvm", 10)

\* C26: over the executions of one language the locator probes the machine
\* at most once: no two invocations of the same language have both run it.
C26_LocatorProbesOncePerLanguage ==
  \A a, b \in Execs :
    (a # b /\ language[a] = language[b] /\ located[a] # NotLocated)
      => located[b] = NotLocated

\* C27: when the user code has run to its end, the delivered result holds
\* one probe entry per probe of the list, in the order of the list; the
\* entry of a probe whose evaluation throws carries an error (and a null
\* value), the others do not, and the result's own error stays null.
C27_ProbesEvaluatedInOrder ==
  \A e \in Execs :
    (pc[e] = "closed" /\ code[e].end = "normal") =>
      LET mc == code[e].magicComments
      IN /\ settled[e].error = NullValue
         /\ "magicComments" \in DOMAIN settled[e]
         /\ Len(settled[e].magicComments) = Len(mc)
         /\ \A k \in 1..Len(mc) :
              LET entry == settled[e].magicComments[k]
              IN /\ entry.line = mc[k].line
                 /\ "error" \in DOMAIN entry <=>
                      (language[e] = "javascript" /\ Throws(code[e], mc[k].expression))
                 /\ "error" \in DOMAIN entry => entry.value = NullValue

\* C28: the transformed code has as many lines as the code of the editor,
\* in the same order.  A line either comes out token for token as it went
\* in, or it passed the candidate checks and comes out wrapped: with the
\* indentation it had, then the output call around its expression, and a
\* semicolon at its end.
C28_LinePreserving ==
  \A e \in Execs :
    executing[e] # "no" =>
      LET before == Split(editor)
          after == Split(prepared[e].autoLoggedCode)
      IN /\ Len(after) = Len(before)
         /\ \A i \in 1..Len(before) :
              \/ after[i] = before[i]
              \/ LET trimmed == Trim(before[i])
                     expression == WithoutSemicolon(trimmed)
                     call == IF currentLanguage = "javascript"
                             THEN <<"console", ".", "log", "(">>
                             ELSE <<"echo", " ">>
                 IN /\ trimmed # <<>>
                    /\ trimmed[1] # "//"
                    /\ ~IsStatement(currentLanguage, trimmed)
                    /\ ~HasAssignment(trimmed)
                    /\ Indent(after[i]) = Indent(before[i])
                    /\ OccursAt(after[i], call, Len(Indent(before[i])) + 1)
                    /\ Includes(after[i], <<"(">> \o expression)
                    /\ after[i][Len(after[i])] = ";"

\* C28's case: an indented line was wrapped.
C28_Witness ==
  /\ executing[1] = "awaiting"
  /\ \E i \in 1..Len(Split(editor)) :
       /\ Indent(Split(editor)[i]) # <<>>
       /\ Split(prepared[1].autoLoggedCode)[i] # Split(editor)[i]

\* The part of a line that is code: what stands before a // comment.
CodePart(line) ==
  LET comment == IndexOf(line, <<"//">>, 1)
  IN IF comment = 0 THEN line ELSE SubSeq(line, 1, comment - 1)

\* How many `open` tokens of the code of lines 1..i are not closed yet.
RECURSIVE Unclosed(_, _, _, _)
Unclosed(lines, i, open, close) ==
  IF i = 0 THEN 0
  ELSE Max(0, Unclosed(lines, i - 1, open, close)
              + Depth(CodePart(lines[i]), open, close))

\* C29: a line is wrapped only when braceDepth and parenDepth are both <= 0;
\* a line that stands inside a block or a parenthesis that is not closed yet
\* is never wrapped; a line that is skipped as a comment leaves both
\* counters as they were.
C29_WrappedOnlyAtDepthZero ==
  \A e \in Execs :
    executing[e] # "no" =>
      LET before == Split(editor)
          after == Split(prepared[e].autoLoggedCode)
      IN \A i \in 1..Len(before) :
           /\ after[i] # before[i] =>
                /\ StateAfter(before, i).braceDepth <= 0
                /\ StateAfter(before, i).parenDepth <= 0
                /\ Unclosed(before, i - 1, "{", "}") = 0
                /\ Unclosed(before, i - 1, "(", ")") = 0
           /\ (Trim(before[i]) # <<>> /\ Trim(before[i])[1] = "//") =>
                /\ StateAfter(before, i).braceDepth
                     = StateAfter(before, i - 1).braceDepth
                /\ StateAfter(before, i).parenDepth
                     = StateAfter(before, i - 1).parenDepth

\* The expression is a bare simple variable: a dollar sign and a name.
BareVariable(expression) ==
  /\ Len(expression) >= 2
  /\ expression[1] = "$"
  /\ expression[2] \in Words
  /\ \A k \in 3..Len(expression) : expression[k] \in Words \cup {"1"}

\* C30: in PHP code every wrapped line is wrapped with exactly one of the
\* two calls: var_export when its expression is a bare simple variable,
\* print_r when it is anything else.
C30_SimpleVariableOrCompound ==
  \A e \in Execs :
    (executing[e] # "no" /\ currentLanguage = "php") =>
      LET before == Split(editor)
          after == Split(prepared[e].autoLoggedCode)
      IN \A i \in 1..Len(before) :
           after[i] # before[i] =>
             LET expression == WithoutSemicolon(Trim(before[i]))
                 call == IF BareVariable(expression) THEN "var_export" ELSE "print_r"
             IN /\ OccursAt(after[i], <<"echo", " ", call, "(">> \o expression,
                            Len(Indent(before[i])) + 1)
                /\ Cardinality({k \in 1..Len(after[i]) :
                                  after[i][k] \in {"var_export", "print_r"}}) = 1

\* C30's case: PHP code in which a simple variable and a method call were
\* both wrapped.
C30_Witness ==
  /\ executing[1] = "awaiting"
  /\ currentLanguage = "php"
  /\ Includes(prepared[1].autoLoggedCode, <<"var_export", "(", "$", "x", ",">>)
  /\ Includes(prepared[1].autoLoggedCode, <<"print_r", "(", "$", "x", "->">>)

\* The execute-code invocation e has been submitted and its child has not
\* ended: its script is being written, its interpreter is being located, or
\* its child runs.
Unfinished(e) == pc[e] \in {"writing", "locating", "running"}

\* C31: when the stop-execution handler runs, every execution that was
\* submitted before it and has not finished is terminated by it: kill() is
\* called on its child, also while its script is being written or its
\* interpreter located.
C31_StopTerminatesEverySubmitted ==
  [][(stopState = "sent" /\ stopState' = "replied") =>
       \A e \in Execs :
         Unfinished(e) => sig'[e] \in {"killed", "killFailed"}]_vars

\* C32: when writing the script to the temporary file fails, the execution
\* resolves with an empty output list and the write error as its error
\* message; the registry is left as it was and no child is spawned for the
\* execution, then or later.
C32_WriteFailureResolvesWithError ==
  /\ [](\A e \in Execs :
          pc[e] = "writeFailed"
          => /\ settled[e] = ErrorResult(<<"write error">>)
             /\ settled[e].output = <<>>
             /\ e \notin MapValues(executionProcesses)
             /\ sig[e] = "none")
  /\ [][\A e \in Execs :
          /\ (pc[e] = "writing" /\ pc'[e] = "writeFailed")
             => executionProcesses' = executionProcesses
          /\ pc[e] = "writeFailed" => pc'[e] = "writeFailed"]_vars

\* C32's case: the write of one execution failed while the child of another
\* was registered, and that child is still registered.
C32_Witness ==
  \E a, b \in Execs :
    /\ pc[a] = "writeFailed"
    /\ settled[a] = ErrorResult(<<"write error">>)
    /\ pc[b] = "running"
    /\ b \in MapValues(executionProcesses)

\* C33: the entries of the editors list have pairwise distinct ids, after
\* any sequence of createNewTab, switchTab and closeTab: a new tab never gets
\* the id of a tab that is still open.
C33_TabIdsDistinct ==
  \A i \in 1..Len(editors) :
    \A j \in 1..Len(editors) :
      editors[i].id = editors[j].id => i = j

\* C34: after initialization and after any sequence of createNewTab,
\* switchTab and closeTab the editors list is not empty and currentTabIndex
\* is the id of one of its editors; the list gets shorter only by one editor
\* of a list of two or more, and then the first editor that is left is the
\* active one.
C34_ActiveTabHasEditor ==
  /\ [](/\ Len(editors) >= 1
        /\ \E i \in 1..Len(editors) : editors[i].id = currentTabIndex)
  /\ [][Len(editors') < Len(editors)
        => /\ Len(editors) > 1
           /\ \E i \in 1..Len(editors) : editors' = RemoveAt(editors, i)
           /\ currentTabIndex' = editors'[1].id]_vars

\* C34's case: the first tab was closed while two more were open, and the
\* first of those is the active one.
C34_Witness ==
  /\ Len(editors) = 2
  /\ editors[1].id # 0
  /\ currentTabIndex = editors[1].id
  /\ editors[2].id # currentTabIndex

\* C35: at every moment currentLanguage is the language recorded for the
\* editor of the active tab, after any sequence of language changes, tab
\* creations, tab switches and tab closes.
C35_LanguageOfActiveTab ==
  FindEditor(editors, currentTabIndex) # 0
  => currentLanguage = editors[FindEditor(editors, currentTabIndex)].language

\* C36: within one run of executeCode the language that chose the auto-log
\* transform is the language sent with the execute-code request, whatever
\* happens while executeInHybridEnvironment waits for the user-data path.
C36_TransformLanguageIsRunLanguage ==
  \A e \in Execs :
    (executing[e] # "no" /\ pc[e] # "idle")
    => language[e] = prepared[e].language

\* C37: when executeCode is called again before an earlier call has
\* finished, the output panel shows only results of the call that started
\* last: nothing of an older run is appended after the newer run cleared
\* the panel.
C37_PanelShowsLastRunOnly ==
  \A i \in 1..Len(outputContent) :
    \A e \in Execs :
      executing[e] # "no" => outputContent[i].run >= e

\* C38: the stop button is shown and the run button hidden exactly while a
\* call of executeCode is in flight, and executionAbortController is not
\* null exactly in those states, however the calls overlap.
C38_StopButtonWhileInFlight ==
  /\ runBtn = "none" <=> \E e \in Execs : Executing(e)
  /\ executionAbortController # NoController <=> \E e \in Execs : Executing(e)

\* C39: with auto-run on, at most one timer of debounceExecute is pending at
\* any time; a change of the editor's content leaves exactly the timer it
\* set, so of a burst of changes only the timer of the last change is left,
\* and when that timer runs executeCode no timer is left to run it again.
C39_OneDebounceTimer ==
  /\ [](Cardinality(timers) <= 1)
  /\ [][/\ executeTimeout' # executeTimeout => timers' = {executeTimeout'}
        /\ timers' # timers /\ executeTimeout' = executeTimeout
           => /\ timers' = {}
              /\ \E e \in Execs :
                   /\ executing[e] = "no" /\ executing'[e] = "awaiting"
                   /\ \A d \in Execs \ {e} : executing'[d] = executing[d]]_vars

\* C39's case: a burst of two changes, the second before the timer of the
\* first had fired, and then one call of executeCode, made by the timer.
C39_Witness ==
  /\ executeTimeout = 2
  /\ timers = {}
  /\ executing[1] = "awaiting"
  /\ executing[2] = "no"

====
